---- MODULE Spec2Model ----
(***************************************************************************)
(* TRS-80 development extension: the emulator process supervisor           *)
(* (EmulatorManager), the assembly invoker (ZmacAssembler) and the         *)
(* workflow orchestrator (TRS80Commands), as a state machine.              *)
(*                                                                         *)
(* Node.js runs the extension on one thread.  Every action below is one    *)
(* run-to-completion piece of a handler: from a call or an event up to     *)
(* the next await / the end of the callback.                               *)
(***************************************************************************)
EXTENDS Integers, Sequences, FiniteSets, TLC

\* ------------------------------------------------------------------ bounds
MaxTasks == 2        \* concurrently pending API calls / commands
MaxChildren == 2     \* emulator children spawned in one behaviour
MaxLate == 1         \* failed spawns whose 'error' event is still pending
MaxTime == 1         \* file modification times are 0..MaxTime
MaxCmds == 1         \* commands of TRS80Commands in flight at once
MaxLine == 3         \* lines of a source file
MaxListing == 2      \* lines of a listing file
MaxBds == 3          \* lines of a symbol file
MaxBreakpoints == 5  \* breakpoints the host holds

Tasks == 1..MaxTasks
Pids == 1..MaxChildren

\* ------------------------------------------------------- program constants
NoPid == 0           \* currentInstance === null

SpawnFailedMessage == "Failed to start emulator process"
TypeErrorMessage == "TypeError: emulatorArgs.trim is not a function"
OsErrors == {"ENOENT", "EACCES"}

NoFile == -1         \* the modification time of a file that does not exist
NoAddress == -1      \* an address that is null

\* A command-line argument is a text, a sequence of strings: a fixed word is
\* the sequence of that one string.
Arg(word) == <<word>>
BdsFile == Arg(".zout/main.bds")
CmdFile == Arg(".zout/main.cmd")
Times == 0..MaxTime

DefaultEmulatorPath == "/Applications/trs80gp.app/Contents/MacOS/trs80gp"
CustomEmulatorPath == "/opt/trs80gp/trs80gp"
\* values of the trs80gp.emulatorPath setting: unset, blank, a path
EmulatorPathSettings == {"", "  ", CustomEmulatorPath}

SourceFile == "main.a80"
IncludeFile == "macros.inc"
Files == {SourceFile, IncludeFile}
NullCode == -1       \* the exit code null of an assembler killed by a signal
ExitCodes == {0, 1, NullCode}

VARIABLES
  currentInstance,   \* EmulatorManager.currentInstance: NoPid or the pid recorded
  child,             \* the ChildProcess objects created by spawn(), by pid
  task,              \* the calls in flight (promises and their continuations)
  lateErr,           \* failed ChildProcess objects whose 'error' event is not yet emitted
  last,              \* the call that settled most recently, and how
  diagnostics,       \* TRS80Commands.diagnostics: per file, the diagnostics shown
  fs,                \* modification times of the source file and of its .bds artifact
  bpm,               \* a call of BreakpointManager: the files it reads, the host's
                     \* breakpoints, and what it returned
  call               \* a call of parseZmacErrors or of getConfiguration: what it
                     \* is given and what it returned

vars == <<currentInstance, child, task, lateErr, last, diagnostics, fs, bpm, call>>

\* the part of the state the supervisor never touches
others == <<diagnostics, fs, bpm, call>>

\* --------------------------------------------------------------- children
\* st:       "none" (pid unused), "running", "dead" (terminated, 'exit' not yet
\*           emitted), "exited" ('exit' emitted, handlers ran)
\* spawnEvt: the 'spawn' event is queued (process.nextTick) and not yet emitted
\* sent:     strongest signal stopEmulator has sent to it
\* stale:    an 'exit' listener of a stopEmulator call that already completed
\*           through its timer is still registered on the process
NoChild == [st |-> "none", spawnEvt |-> FALSE, sent |-> "none", stale |-> FALSE]

\* ------------------------------------------------------------------ tasks
\* op:   "none", "start", "stop" (calls of the supervisor), "run", "debug",
\*       "assemble", "stopCmd" (commands of TRS80Commands)
\* pc:   "idle", "source" (command: await getSourceFile), "asmwait" (command:
\*       the assembler runs), "stopping" (inside stopEmulator, waiting for
\*       exit or timer),
\*       "afterStop" (start: await stopEmulator() resolved, continuation queued),
\*       "spawning" (start: child spawned, waiting for 'spawn')
\* wait: pid whose exit the pending stopEmulator waits for
\* timer: the 2000 ms timeout of the pending stopEmulator is armed
\* inst: start: the pid of the child this call spawned
\* bp:   command: prepareEmulatorArgs resolved breakpoints
\* exit: command: how its assembler ended: "none" (not run), "zero",
\*       "nonzero", "signal", "spawnError"
\* cfg:  run/debug: whether the emulator path it read is a file on disk:
\*       "valid", "invalid"; "none" for the other calls
\* prep: debug/run: what prepareEmulatorArgs computed
\* args: the argument vector spawn() was called with, <<>> before the call
NoPrep == [done |-> FALSE, resolved |-> 0, dropped |-> 0, entry |-> NoAddress,
           breakpointArgs |-> <<>>]
NoTask ==
  [op |-> "none", pc |-> "idle", wait |-> NoPid, timer |-> FALSE, inst |-> NoPid,
   bp |-> FALSE, exit |-> "none", cfg |-> "none", prep |-> NoPrep, args |-> <<>>]

\* an AssemblyResult that counts error diagnostics as a failure
AssemblyResult_ByErrors(success, outputFiles, errors) ==
  [known |-> TRUE,
   success |-> success /\ \A i \in 1..Len(errors) : errors[i].severity # "error",
   outputFiles |-> outputFiles, errors |-> errors]

\* an AssemblyResult, as far as the commands look at it
\* outputFiles: which of "bds" and "cmd" are set in its outputFiles
AssemblyResult(success, outputFiles, errors) ==
  [known |-> TRUE, success |-> success, outputFiles |-> outputFiles, errors |-> errors]
NoResult == [known |-> FALSE, success |-> FALSE, outputFiles |-> {}, errors |-> <<>>]

\* The settlement of a call:
\* res:  "resolved" or "rejected";  err: the rejection's message
\* inst: start: the instance resolved with; status: the instance reported
\* osErr: the OS error of a failed spawn (what the 'error' event carries)
\* how:  the way the call's stopEmulator resolved: "immediate" (nothing
\*       recorded), "termThrew" (kill('SIGTERM') threw), "exit" ('exit'
\*       listener), "timer" (timeout, SIGKILL sent), "killThrew" (timeout,
\*       kill('SIGKILL') threw); "none" where the call never got there
\* why:  command: where it ended: "configError", "noSource", "mkdirFailed",
\*       "asmFailed", "noBds", "noCmd", "startFailed", "started", "assembled",
\*       "skipped"
\* bp, exit, cfg: as in the task
\* result: command: the assembly result performAssembly ended with
NoSettle ==
  [op |-> "none", res |-> "none", err |-> "none", inst |-> NoPid,
   osErr |-> "none", how |-> "none", why |-> "none", bp |-> FALSE,
   exit |-> "none", cfg |-> "none", result |-> NoResult, args |-> <<>>]

\* the settlement of the call with task record r
Settle(r, res) ==
  [NoSettle EXCEPT !.op = r.op, !.res = res, !.bp = r.bp, !.exit = r.exit,
                   !.cfg = r.cfg, !.args = r.args]

\* a call made directly
Call(op) == [NoTask EXCEPT !.op = op]

InFlight(t) == task[t].pc # "idle"
\* a call takes the first record that is free
Callable(t) == ~InFlight(t) /\ \A u \in Tasks : u < t => InFlight(u)
AnyInFlight == \E t \in Tasks : InFlight(t)
\* a command takes a record while fewer than MaxCmds calls are in flight
CommandCallable(t) == Callable(t) /\ Cardinality({u \in Tasks : InFlight(u)}) < MaxCmds

Alive(c) == child[c].st = "running"
AliveSet == {c \in Pids : Alive(c)}
FreePids == {c \in Pids : child[c].st = "none"}
NextPid == CHOOSE c \in FreePids : \A d \in FreePids : c <= d

\* no file at that path
NoText == [exists |-> FALSE, readable |-> FALSE, lines |-> <<>>]

\* no call of BreakpointManager made
\* op:      "none" (not called yet, the inputs are set), "findAddress",
\*          "getBreakpoints", "getEntryPoint"
\* folder:  a workspace folder is open
\* listing, source, bds: the listing, source and symbol files on disk
\* breakpoints: vscode.debug.breakpoints; line: the line asked for
\* address, infos, args: what the call returned
NoBpm ==
  [op |-> "none", folder |-> TRUE, listing |-> NoText, source |-> NoText,
   bds |-> NoText, breakpoints |-> <<>>, line |-> 0,
   address |-> NoAddress, infos |-> <<>>, args |-> <<>>]

\* no call of parseZmacErrors or getConfiguration made
NoCall == [op |-> "none"]

\* the extension right after activation
Activated ==
  /\ currentInstance = NoPid
  /\ child = [c \in Pids |-> NoChild]
  /\ task = [t \in Tasks |-> NoTask]
  /\ lateErr = 0
  /\ last = NoSettle
  /\ diagnostics = [f \in Files |-> <<>>]
  /\ fs = [srcM |-> 0, bdsM |-> NoFile]

Init ==
  /\ bpm = NoBpm
  /\ call = NoCall
  /\ currentInstance = NoPid
  /\ child = [c \in Pids |-> NoChild]
  /\ task = [t \in Tasks |-> NoTask]
  /\ lateErr = 0
  /\ last = NoSettle
  /\ diagnostics = [f \in Files |-> <<>>]
  /\ fs = [srcM |-> 0, bdsM |-> NoFile]

\* ------------------------------------------------------------ stopEmulator
KillOutcomes == {"returns", "throws"}

\* the signal stopEmulator tries first, and the one its timeout escalates to
GracefulSignal_Forceful == "SIGKILL"
GracefulSignal == "SIGTERM"
ForcefulSignal == "SIGKILL"

\* the larger of the signal already sent and the one sent now
Escalate(old, sig) == IF old = "SIGKILL" THEN "SIGKILL" ELSE sig

\* stopEmulator's first statement: nothing recorded, nothing to do
NothingToStop_Never(cur) == FALSE
NothingToStop(cur) == cur = NoPid

\* whether the caller of stopEmulator is startEmulator (which goes on to spawn)
StartsAfterStop(op) == op \in {"start", "run", "debug"}

\* stopEmulator of task t (r its record) has resolved in the way `how`:
\* a stop settles, a start has its continuation queued
StopResolved_Rethrows(t, r, how) ==
  IF StartsAfterStop(r.op)
  THEN /\ task' = [task EXCEPT ![t] = [r EXCEPT !.pc = "afterStop", !.wait = NoPid,
                                                !.timer = FALSE]]
       /\ UNCHANGED last
  ELSE /\ task' = [task EXCEPT ![t] = NoTask]
       /\ last' = IF how \in {"termThrew", "killThrew"}
                  THEN [Settle(r, "rejected") EXCEPT !.how = how, !.err = "kill ESRCH"]
                  ELSE [Settle(r, "resolved") EXCEPT !.how = how]

StopResolved(t, r, how) ==
  IF StartsAfterStop(r.op)
  THEN /\ task' = [task EXCEPT ![t] = [r EXCEPT !.pc = "afterStop", !.wait = NoPid,
                                                !.timer = FALSE]]
       /\ UNCHANGED last
  ELSE /\ task' = [task EXCEPT ![t] = NoTask]
       /\ last' = [Settle(r, "resolved") EXCEPT !.how = how]

\* The synchronous part of stopEmulator(), run by task t whose record is r.
\* ko is what process.kill('SIGTERM') does.
StopEmulatorSync(t, r, ko) ==
  IF NothingToStop(currentInstance)
  THEN /\ StopResolved(t, r, "immediate")
       /\ UNCHANGED <<currentInstance, child>>
  ELSE LET c == currentInstance IN
       /\ child' = [child EXCEPT ![c].sent = Escalate(@, GracefulSignal)]
       /\ IF ko = "throws"
          THEN \* catch: cleanup()
               /\ currentInstance' = NoPid
               /\ StopResolved(t, r, "termThrew")
          ELSE \* setTimeout(..., 2000); process.on('exit', ...)
               /\ currentInstance' = currentInstance
               /\ task' = [task EXCEPT ![t] = [r EXCEPT !.pc = "stopping",
                                                       !.wait = c,
                                                       !.timer = TRUE]]
               /\ UNCHANGED last

\* whether a call's emulatorArgs argument is a string: a direct call passes
\* one; TRS80Commands.startEmulator leaves out modelArg, so that the callee's
\* emulatorArgs is the caller's breakpointArgs array
EmulatorArgsIsString(op) == op = "start"

\* EmulatorManager.startEmulator, up to `await this.stopEmulator()`
StartCall(t) ==
  /\ Callable(t)
  /\ \E ko \in KillOutcomes : StopEmulatorSync(t, Call("start"), ko)
  /\ UNCHANGED <<lateErr, others>>

\* EmulatorManager.stopEmulator called on its own
StopCall(t) ==
  /\ Callable(t)
  /\ \E ko \in KillOutcomes : StopEmulatorSync(t, Call("stop"), ko)
  /\ UNCHANGED <<lateErr, others>>

\* EmulatorManager.getCurrentInstance / isRunning
GetCurrentInstance == currentInstance

\* a status query that forgets the instance it reported
StatusCall_Clears ==
  /\ last' = [Settle(Call("status"), "resolved") EXCEPT !.inst = GetCurrentInstance]
  /\ currentInstance' = NoPid
  /\ UNCHANGED <<child, task, lateErr, others>>

\* a status query: reads the instance, changes nothing
StatusCall ==
  /\ last' = [Settle(Call("status"), "resolved") EXCEPT !.inst = GetCurrentInstance]
  /\ UNCHANGED <<currentInstance, child, task, lateErr, others>>

\* the timeout callback of stopEmulator: SIGKILL (errors swallowed), cleanup()
TimerFire(t) ==
  /\ task[t].pc = "stopping"
  /\ task[t].timer
  /\ \E ko \in KillOutcomes :
       LET c == task[t].wait IN
       /\ child' = [child EXCEPT ![c].sent = Escalate(@, ForcefulSignal),
                                 ![c].stale = TRUE]
       /\ currentInstance' = NoPid
       /\ StopResolved(t, task[t], IF ko = "throws" THEN "killThrew" ELSE "timer")
  /\ UNCHANGED <<lateErr, others>>

\* ----------------------------------------------------------- startEmulator
\* the instance the 'exit' handler of startEmulator leaves recorded
ExitHandlerInstance_Keeps(cur, c) == cur
ExitHandlerInstance(cur, c) == IF cur = c THEN NoPid ELSE cur

\* the error startEmulator rejects with when spawn() returned no pid and the
\* operating system's error is e
SpawnFailureError(e) == SpawnFailedMessage

\* a start of task record r failed with message msg: a direct call is
\* rejected with it; executeWithMode catches it and shows it
StartFailed(r, msg, e) ==
  IF r.op = "start"
  THEN [Settle(r, "rejected") EXCEPT !.err = msg, !.osErr = e]
  ELSE [Settle(r, "resolved") EXCEPT !.err = msg, !.osErr = e, !.why = "startFailed"]

\* a start of task record r resolved with instance c
StartSucceeded(r, c) ==
  IF r.op = "start"
  THEN [Settle(r, "resolved") EXCEPT !.inst = c]
  ELSE [Settle(r, "resolved") EXCEPT !.inst = c, !.why = "started"]

\* emulatorArgs.trim() === '' ? [] : emulatorArgs.split(' '), on the words of
\* the string
UserArgs(emulatorArgs) == IF emulatorArgs = <<>> THEN <<>> ELSE emulatorArgs

\* the argument list startEmulator builds
BuildArgs(modelArg, emulatorArgs, breakpointArgs, bdsOnDisk, bdsFile, cmdFile) ==
  <<modelArg>> \o UserArgs(emulatorArgs) \o breakpointArgs
    \o (IF bdsOnDisk THEN <<Arg("-ls"), bdsFile>> ELSE <<>>) \o <<cmdFile>>

\* the arguments of a direct call: a model flag, the defaults '' and []
DirectArgs ==
  BuildArgs(Arg("-m3"), <<>>, <<>>, fs.bdsM # NoFile, BdsFile, CmdFile)

\* the continuation of startEmulator after `await this.stopEmulator()`
StartSpawn(t) ==
  /\ task[t].pc = "afterStop"
  /\ \/ \* emulatorArgs.trim() on a non-string
        /\ ~EmulatorArgsIsString(task[t].op)
        /\ task' = [task EXCEPT ![t] = NoTask]
        /\ last' = StartFailed(task[t], TypeErrorMessage, "none")
        /\ UNCHANGED <<child, lateErr>>
     \/ \* spawn() succeeded: process.pid is set
        /\ EmulatorArgsIsString(task[t].op)
        /\ FreePids # {}
        /\ child' = [child EXCEPT ![NextPid] =
                       [NoChild EXCEPT !.st = "running", !.spawnEvt = TRUE]]
        /\ task' = [task EXCEPT ![t].pc = "spawning", ![t].inst = NextPid,
                                 ![t].args = DirectArgs]
        /\ UNCHANGED <<lateErr, last>>
     \/ \* spawn() failed: process.pid is undefined
        /\ EmulatorArgsIsString(task[t].op)
        /\ lateErr < MaxLate
        /\ \E e \in OsErrors :
             last' = StartFailed([task[t] EXCEPT !.args = DirectArgs],
                                 SpawnFailureError(e), e)
        /\ task' = [task EXCEPT ![t] = NoTask]
        /\ lateErr' = lateErr + 1
        /\ UNCHANGED child
  /\ UNCHANGED <<currentInstance, others>>

\* process.on('spawn'): record the instance, resolve the start
SpawnEvent(c) ==
  /\ child[c].spawnEvt
  /\ child' = [child EXCEPT ![c].spawnEvt = FALSE]
  /\ currentInstance' = c
  /\ \E t \in Tasks :
       /\ task[t].pc = "spawning" /\ task[t].inst = c
       /\ task' = [task EXCEPT ![t] = NoTask]
       /\ last' = StartSucceeded(task[t], c)
  /\ UNCHANGED <<lateErr, others>>

\* the child terminates (on its own, or because of a signal)
ChildDies(c) ==
  /\ child[c].st = "running"
  /\ child' = [child EXCEPT ![c].st = "dead"]
  /\ UNCHANGED <<currentInstance, task, lateErr, last, others>>

\* the stopEmulator calls that wait for the exit of c
StopListeners(c) == {t \in Tasks : task[t].pc = "stopping" /\ task[t].wait = c}

\* 'exit' is emitted: the handler of startEmulator, then the listeners that
\* stopEmulator calls registered (clearTimeout; cleanup())
ExitEvent(c) ==
  /\ child[c].st = "dead"
  /\ ~child[c].spawnEvt
  /\ child' = [child EXCEPT ![c].st = "exited", ![c].stale = FALSE]
  /\ currentInstance' =
       IF StopListeners(c) # {} \/ child[c].stale
       THEN NoPid
       ELSE ExitHandlerInstance(currentInstance, c)
  /\ task' = [t \in Tasks |->
        IF t \in StopListeners(c)
        THEN IF StartsAfterStop(task[t].op)
             THEN [task[t] EXCEPT !.pc = "afterStop", !.wait = NoPid, !.timer = FALSE]
             ELSE NoTask
        ELSE task[t]]
  /\ last' =
       LET S == {t \in StopListeners(c) : ~StartsAfterStop(task[t].op)} IN
       IF S = {} THEN last
       ELSE [Settle(task[CHOOSE t \in S : TRUE], "resolved") EXCEPT !.how = "exit"]
  /\ UNCHANGED <<lateErr, others>>

\* the 'error' event of a ChildProcess whose spawn failed: startEmulator
\* returned before registering any listener on it
LateErrorEvent ==
  /\ lateErr > 0
  /\ lateErr' = lateErr - 1
  /\ UNCHANGED <<currentInstance, child, task, last, others>>

\* stop(): nothing to do without an instance, else stopEmulator
CommandStop(t) ==
  /\ Callable(t)
  /\ \E ko \in KillOutcomes : StopEmulatorSync(t, Call("stopCmd"), ko)
  /\ UNCHANGED <<lateErr, others>>

Next ==
  \/ \E t \in Tasks : StartCall(t)
  \/ \E t \in Tasks : StopCall(t)
  \/ \E t \in Tasks : CommandStop(t)
  \/ StatusCall
  \/ \E t \in Tasks : TimerFire(t)
  \/ \E t \in Tasks : StartSpawn(t)
  \/ \E c \in Pids : SpawnEvent(c)
  \/ \E c \in Pids : ChildDies(c)
  \/ \E c \in Pids : ExitEvent(c)
  \/ LateErrorEvent

Spec == Init /\ [][Next]_vars

\* the same program when its user issues a call only after the previous one settled
NextSerial ==
  \/ \E t \in Tasks : ~AnyInFlight /\ StartCall(t)
  \/ \E t \in Tasks : ~AnyInFlight /\ StopCall(t)
  \/ StatusCall
  \/ \E t \in Tasks : TimerFire(t)
  \/ \E t \in Tasks : StartSpawn(t)
  \/ \E c \in Pids : SpawnEvent(c)
  \/ \E c \in Pids : ChildDies(c)
  \/ \E c \in Pids : ExitEvent(c)
  \/ LateErrorEvent

SerialSpec == Init /\ [][NextSerial]_vars

\* the event loop runs a timeout callback that stays armed
FairSpec == Spec /\ \A t \in Tasks : WF_vars(TimerFire(t))

\* ==================================================== ConfigurationManager
\* String.prototype.trim on the setting values
Trim(p) == IF p = "  " THEN "" ELSE p

\* getConfiguration: the setting when it is a non-empty string, else the
\* default; ensureMinimalConfiguration: the default for a blank path
GetEmulatorPath(setting) ==
  LET p == IF setting # "" THEN setting ELSE DefaultEmulatorPath
  IN IF p = "" \/ Trim(p) = "" THEN DefaultEmulatorPath ELSE p

\* getModelFlag
Targets == {"model1", "model3", "model4", "coco"}
GetModelFlag(target) ==
  CASE target = "model1" -> Arg("-m1")
    [] target = "model3" -> Arg("-m3")
    [] target = "model4" -> Arg("-m4")
    [] OTHER -> Arg("-m3")

\* validateConfiguration: the list of error messages
ValidateConfiguration_NoDiskCheck(path, onDisk) ==
  IF path = "" THEN <<"trs80gp emulator path is not configured">> ELSE <<>>

ValidateConfiguration(path, onDisk) ==
  IF path = "" THEN <<"trs80gp emulator path is not configured">>
  ELSE IF path \notin onDisk THEN <<"trs80gp emulator not found">>
  ELSE <<>>

\* ---- getConfiguration: output directory, emulator arguments, target model
\* a value that is not there: a field the project file lacks, a setting that
\* has neither a value nor a declared default
Undefined == "undefined"
\* a value that is an array, not a string
ArrayValue == "[array]"

\* DEFAULT_CONFIG
DefaultConfig == [outputDir |-> ".zout", emulatorArgs |-> "", target |-> "model3"]

\* .vscode/trs80gp.json: whether it exists, whether JSON.parse takes it, and
\* its fields
ProjectFile(outputDir, emulatorArgs, target) ==
  [exists |-> TRUE, parses |-> TRUE, outputDir |-> outputDir,
   emulatorArgs |-> emulatorArgs, target |-> target]
NoProjectFile ==
  [exists |-> FALSE, parses |-> FALSE, outputDir |-> Undefined,
   emulatorArgs |-> Undefined, target |-> Undefined]
BrokenProjectFile == [NoProjectFile EXCEPT !.exists = TRUE]

\* the settings of the editor, as config.get returns them: emulatorArgs,
\* defaultOutputDir, defaultTarget
Settings(emulatorArgs, defaultOutputDir, defaultTarget) ==
  [emulatorArgs |-> emulatorArgs, defaultOutputDir |-> defaultOutputDir,
   defaultTarget |-> defaultTarget]

\* typeof v === 'string'
IsString(v) == v \notin {Undefined, ArrayValue}

\* ensureMinimalConfiguration on the three fields
EnsureMinimalConfiguration(c) ==
  [outputDir |-> IF c.outputDir = "" \/ Trim(c.outputDir) = ""
                 THEN DefaultConfig.outputDir ELSE c.outputDir,
   emulatorArgs |-> IF ~IsString(c.emulatorArgs) THEN DefaultConfig.emulatorArgs
                    ELSE c.emulatorArgs,
   target |-> IF c.target = "" \/ c.target \notin {"model1", "model3", "model4"}
              THEN DefaultConfig.target ELSE c.target]

\* getConfiguration: the defaults, then the fields of a project file that
\* parses, then the editor settings, then ensureMinimalConfiguration
GetConfiguration(project, settings) ==
  LET read == project.exists /\ project.parses
      outputDir1 == IF read /\ project.outputDir # Undefined THEN project.outputDir
                    ELSE DefaultConfig.outputDir
      emulatorArgs1 == IF read /\ IsString(project.emulatorArgs) THEN project.emulatorArgs
                       ELSE DefaultConfig.emulatorArgs
      target1 == IF read /\ project.target # Undefined THEN project.target
                 ELSE DefaultConfig.target
      emulatorArgs2 == IF IsString(settings.emulatorArgs) THEN settings.emulatorArgs
                       ELSE emulatorArgs1
      outputDir2 == IF IsString(settings.defaultOutputDir) /\ settings.defaultOutputDir # ""
                    THEN settings.defaultOutputDir ELSE outputDir1
      target2 == IF IsString(settings.defaultTarget) /\ settings.defaultTarget # ""
                 THEN settings.defaultTarget ELSE target1
  IN EnsureMinimalConfiguration(
       [outputDir |-> outputDir2,
        emulatorArgs |-> IF ~IsString(emulatorArgs2) THEN "-m3" ELSE emulatorArgs2,
        target |-> target2])

\* =========================================================== ZmacAssembler
\* needsAssembly: the artifact is missing, a stat fails, or the source is newer
NeedsAssembly_OrSame(srcM, bdsM) ==
  IF bdsM = NoFile THEN TRUE
  ELSE IF srcM = NoFile THEN TRUE
  ELSE srcM >= bdsM

NeedsAssembly(srcM, bdsM) ==
  IF bdsM = NoFile THEN TRUE
  ELSE IF srcM = NoFile THEN TRUE
  ELSE srcM > bdsM

\* the close handler: success is exit code zero
Success_Always(code) == TRUE
Success(code) == code = 0

\* ---- text
\* A text is a sequence of words and blanks (" ").
Blank == " "

RECURSIVE TrimStart(_)
TrimStart(m) == IF m # <<>> /\ Head(m) = Blank THEN TrimStart(Tail(m)) ELSE m

RECURSIVE TrimEnd(_)
TrimEnd(m) ==
  IF m # <<>> /\ m[Len(m)] = Blank THEN TrimEnd(SubSeq(m, 1, Len(m) - 1)) ELSE m

\* String.prototype.trim
TrimText(m) == TrimEnd(TrimStart(m))

\* The lines of the assembler's standard error, by the patterns they match:
\* kind "structured" (/File\s+'([^']+)',\s+line\s+(\d+):\s*(.+)/i matches),
\* "simple" (only /line\s+(\d+):\s*(.+)/i matches) or "other" (neither).
\* file, line: the captured name and number; message: the text after the
\* colon; warn: the line contains "warning"
StderrLine(kind, file, line, message, warn) ==
  [kind |-> kind, file |-> file, line |-> line, message |-> message, warn |-> warn]

UndefinedSymbol == <<"Undefined", Blank, "symbol", Blank, "'foo'">>

\* what the assembler of a command writes to standard error
StderrTexts ==
  { <<>>,
    <<StderrLine("structured", SourceFile, 7, UndefinedSymbol, FALSE)>>,
    <<StderrLine("other", "", 0, <<>>, FALSE),
      StderrLine("structured", IncludeFile, 0, <<"warning:", Blank, "unused">>, TRUE),
      StderrLine("simple", "", 3, <<Blank, "syntax">>, FALSE)>> }

Severity(l) == IF l.warn THEN "warning" ELSE "error"

\* an AssemblyError
AssemblyError(file, line, message, severity) ==
  [file |-> file, line |-> line, message |-> message, severity |-> severity]

RECURSIVE ParseZmacErrors_Both(_, _)
\* parseZmacErrors that also takes the looser match of a structured line
ParseZmacErrors_Both(stderr, sourceFile) ==
  IF stderr = <<>> THEN <<>>
  ELSE LET l == Head(stderr)
           errorMatch == l.kind = "structured"
           simpleErrorMatch == l.kind \in {"structured", "simple"}
       IN (IF errorMatch
           THEN <<AssemblyError(l.file, l.line, TrimText(l.message), Severity(l))>>
           ELSE <<>>)
          \o (IF simpleErrorMatch
              THEN <<AssemblyError(sourceFile, l.line, TrimText(l.message), Severity(l))>>
              ELSE <<>>)
          \o ParseZmacErrors_Both(Tail(stderr), sourceFile)

RECURSIVE ParseZmacErrors(_, _)
\* parseZmacErrors: for each line in order, the structured match, or else the
\* looser match (which every line with a structured match has too)
ParseZmacErrors(stderr, sourceFile) ==
  IF stderr = <<>> THEN <<>>
  ELSE LET l == Head(stderr)
           errorMatch == l.kind = "structured"
           simpleErrorMatch == l.kind \in {"structured", "simple"}
       IN (IF errorMatch
           THEN <<AssemblyError(l.file, l.line, TrimText(l.message), Severity(l))>>
           ELSE <<>>)
          \o (IF simpleErrorMatch /\ ~errorMatch
              THEN <<AssemblyError(sourceFile, l.line, TrimText(l.message), Severity(l))>>
              ELSE <<>>)
          \o ParseZmacErrors(Tail(stderr), sourceFile)

\* getOutputFiles: the artifacts that fs.existsSync finds
GetOutputFiles(bdsOnDisk, cmdOnDisk) ==
  (IF bdsOnDisk THEN {"bds"} ELSE {}) \cup (IF cmdOnDisk THEN {"cmd"} ELSE {})

\* the error handler of assemble() that reports nothing
SpawnErrorDiagnostics_None(sourceFile) == <<>>

\* the single diagnostic of a failed spawn of the assembler
SpawnErrorDiagnostics(sourceFile) ==
  <<AssemblyError(sourceFile, 1, <<"Failed", Blank, "to", Blank, "start", Blank, "zmac">>,
                  "error")>>

\* ======================================================= BreakpointManager
Max0(n) == IF n < 0 THEN 0 ELSE n

RECURSIVE DiagnosticsOf(_, _)
\* the diagnostics of file f among errors, lines converted to 0-based
DiagnosticsOf(errors, f) ==
  IF errors = <<>> THEN <<>>
  ELSE LET e == Head(errors)
           rest == DiagnosticsOf(Tail(errors), f)
       IN IF e.file = f
          THEN <<[line |-> Max0(e.line - 1), message |-> e.message,
                  severity |-> e.severity]>> \o rest
          ELSE rest

\* updateDiagnostics: clear, then set the diagnostics of every file
\* updateDiagnostics that leaves alone the files without new diagnostics
UpdateDiagnostics_Merge(old, errors) ==
  [f \in Files |-> IF DiagnosticsOf(errors, f) = <<>> THEN old[f]
                   ELSE DiagnosticsOf(errors, f)]

UpdateDiagnostics(old, errors) == [f \in Files |-> DiagnosticsOf(errors, f)]

\* ---- hexadecimal text
\* A text of hexadecimal digits is a sequence of one-character strings.
HexValue(c) ==
  CASE c = "0" -> 0  [] c = "1" -> 1  [] c = "2" -> 2  [] c = "3" -> 3
    [] c = "4" -> 4  [] c = "5" -> 5  [] c = "6" -> 6  [] c = "7" -> 7
    [] c = "8" -> 8  [] c = "9" -> 9
    [] c \in {"a", "A"} -> 10  [] c \in {"b", "B"} -> 11
    [] c \in {"c", "C"} -> 12  [] c \in {"d", "D"} -> 13
    [] c \in {"e", "E"} -> 14  [] c \in {"f", "F"} -> 15

RECURSIVE ParseInt16(_)
\* parseInt(text, 16) of a text of hexadecimal digits
ParseInt16(h) ==
  IF h = <<>> THEN 0
  ELSE 16 * ParseInt16(SubSeq(h, 1, Len(h) - 1)) + HexValue(h[Len(h)])

UpperDigits ==
  <<"0", "1", "2", "3", "4", "5", "6", "7", "8", "9", "A", "B", "C", "D", "E", "F">>

RECURSIVE ToUpperHex_Decimal(_)
\* n.toString(), the decimal digits
ToUpperHex_Decimal(n) ==
  IF n < 10 THEN <<UpperDigits[n + 1]>>
  ELSE ToUpperHex_Decimal(n \div 10) \o <<UpperDigits[(n % 10) + 1]>>

RECURSIVE ToUpperHex(_)
\* n.toString(16).toUpperCase(): no leading zeros
ToUpperHex(n) ==
  IF n < 16 THEN <<UpperDigits[n + 1]>>
  ELSE ToUpperHex(n \div 16) \o <<UpperDigits[(n % 16) + 1]>>

\* ---- the files the resolver reads
\* a file: whether fs.existsSync finds it, whether readFileSync succeeds, and
\* its lines
TextFile(exists, readable, lines) ==
  [exists |-> exists, readable |-> readable, lines |-> lines]

\* A line of the listing file: `entry` when it matches
\* /^\s*(\d+):\s*[^\t]*\t([0-9A-Fa-f]{4})\s+/, with its decimal line number
\* and its address text.
ListingEntry(line, hex) == [entry |-> TRUE, line |-> line, hex |-> hex]
ListingOther == [entry |-> FALSE, line |-> 0, hex |-> <<>>]

\* A line of the symbol (.bds) file, trimmed, by the pattern it matches:
\* "marker"  ADDRESS e
\* "label"   ADDRESS a LABEL
\* "source"  ADDRESS ADDRESS s TEXT  (label: the identifier before ':' at the
\*           start of TEXT, "" when TEXT does not start with one)
\* "simple"  ADDRESS LABEL
\* "complex" ADDRESS LABEL (FILE:LINE)
\* "other"   anything else
BdsLine(kind, hex, label) == [kind |-> kind, hex |-> hex, label |-> label]

\* A line of the source file, trimmed: the identifier of /^(\w+):/, "" when
\* the line does not match
SourceLine(label) == [label |-> label]

\* String.prototype.toLowerCase on the labels in use
ToLowerCase(s) == IF s \in {"MAIN", "Main"} THEN "main" ELSE s

\* a line ADDRESS LABEL (FILE:LINE), with the line number it names
BdsComplexLine(hex, label, line) ==
  [kind |-> "complex", hex |-> hex, label |-> label, line |-> line]

\* a SymbolInfo: line is the position of the line in the symbol file, or the
\* number a complex line names
SymbolInfo(address, label, line) == [address |-> address, label |-> label, line |-> line]

RECURSIVE ParseBdsLines_StopsAtOther(_)
\* parseBdsFile's loop when a line it does not recognize ends the parse
ParseBdsLines_StopsAtOther(lines) ==
  IF lines = <<>> THEN <<>>
  ELSE LET i == Len(lines)
           l == lines[i]
           front == ParseBdsLines_StopsAtOther(SubSeq(lines, 1, i - 1))
           address == ParseInt16(l.hex)
       IN IF \E j \in 1..(i - 1) : lines[j].kind = "other" THEN front
          ELSE
          CASE l.kind = "label" -> front \o <<SymbolInfo(address, l.label, i)>>
            [] l.kind = "source" ->
                 IF l.label # "" THEN front \o <<SymbolInfo(address, l.label, i)>> ELSE front
            [] l.kind = "simple" -> front \o <<SymbolInfo(address, l.label, i)>>
            [] l.kind = "complex" -> front \o <<SymbolInfo(address, l.label, l.line)>>
            [] l.kind = "marker" -> front \o <<SymbolInfo(address, "e", i)>>
            [] OTHER -> front

RECURSIVE ParseBdsLines(_)
\* parseBdsFile's loop: one symbol per line that matches a symbol pattern, in
\* the order of the lines.  A marker line "ADDRESS e" also matches the pattern
\* ADDRESS LABEL.
ParseBdsLines(lines) ==
  IF lines = <<>> THEN <<>>
  ELSE LET i == Len(lines)
           l == lines[i]
           front == ParseBdsLines(SubSeq(lines, 1, i - 1))
           address == ParseInt16(l.hex)
       IN CASE l.kind = "label" -> front \o <<SymbolInfo(address, l.label, i)>>
            [] l.kind = "source" ->
                 IF l.label # "" THEN front \o <<SymbolInfo(address, l.label, i)>> ELSE front
            [] l.kind = "simple" -> front \o <<SymbolInfo(address, l.label, i)>>
            [] l.kind = "complex" -> front \o <<SymbolInfo(address, l.label, l.line)>>
            [] l.kind = "marker" -> front \o <<SymbolInfo(address, "e", i)>>
            [] OTHER -> front

\* parseBdsFile: no symbols when the file is missing or cannot be read
ParseBdsFile(bds) ==
  IF ~bds.exists THEN <<>>
  ELSE IF ~bds.readable THEN <<>>
  ELSE ParseBdsLines(bds.lines)

\* Array.prototype.find and the loops that return at the first hit: the first
\* of the indices S that satisfy the test, 0 when there is none
FindIndex(S) == IF S = {} THEN 0 ELSE CHOOSE i \in S : \A j \in S : i <= j

\* symbolMap.find(s => s.label === labelName)
FindSymbol(symbolMap, labelName) ==
  FindIndex({i \in 1..Len(symbolMap) : symbolMap[i].label = labelName})

\* getEntryPoint: the first marker line, else the first symbol whose label
\* lower-cased is 'main', else the first symbol, else null
GetEntryPoint_FirstSymbolFirst(bds) ==
  IF ~bds.exists THEN NoAddress
  ELSE IF ~bds.readable THEN NoAddress
  ELSE LET m == FindIndex({i \in 1..Len(bds.lines) : bds.lines[i].kind = "marker"})
           symbolMap == ParseBdsFile(bds)
           main == FindIndex({i \in 1..Len(symbolMap) :
                                ToLowerCase(symbolMap[i].label) = "main"})
       IN IF m # 0 THEN ParseInt16(bds.lines[m].hex)
          ELSE IF Len(symbolMap) > 0 THEN symbolMap[1].address
          ELSE IF main # 0 THEN symbolMap[main].address
          ELSE NoAddress

GetEntryPoint(bds) ==
  IF ~bds.exists THEN NoAddress
  ELSE IF ~bds.readable THEN NoAddress
  ELSE LET m == FindIndex({i \in 1..Len(bds.lines) : bds.lines[i].kind = "marker"})
           symbolMap == ParseBdsFile(bds)
           main == FindIndex({i \in 1..Len(symbolMap) :
                                ToLowerCase(symbolMap[i].label) = "main"})
       IN IF m # 0 THEN ParseInt16(bds.lines[m].hex)
          ELSE IF main # 0 THEN symbolMap[main].address
          ELSE IF Len(symbolMap) > 0 THEN symbolMap[1].address
          ELSE NoAddress

\* ---- findAddressUsingNearestLabel
NoNearest == [found |-> FALSE, address |-> NoAddress, distance |-> 0]

RECURSIVE NearestScan_KeepsFirst(_, _, _, _, _)
\* the same loop when a label once found is never replaced
NearestScan_KeepsFirst(sourceLines, targetLine, symbolMap, i, nearest) ==
  IF i > Len(sourceLines) THEN nearest
  ELSE LET labelName == sourceLines[i].label
           s == FindSymbol(symbolMap, labelName)
           distance == targetLine - i
       IN IF labelName # "" /\ s # 0 /\ i <= targetLine /\ ~nearest.found
          THEN NearestScan_KeepsFirst(sourceLines, targetLine, symbolMap, i + 1,
                           [found |-> TRUE, address |-> symbolMap[s].address,
                            distance |-> distance])
          ELSE NearestScan_KeepsFirst(sourceLines, targetLine, symbolMap, i + 1, nearest)

RECURSIVE NearestScan(_, _, _, _, _)
\* Strategy 2's loop from source line i on; nearest: the label kept so far
\* (nearestDistance is Infinity while none is found)
NearestScan(sourceLines, targetLine, symbolMap, i, nearest) ==
  IF i > Len(sourceLines) THEN nearest
  ELSE LET labelName == sourceLines[i].label
           s == FindSymbol(symbolMap, labelName)
           distance == targetLine - i
           closer == ~nearest.found \/ distance < nearest.distance
       IN IF labelName # "" /\ s # 0 /\ i <= targetLine /\ closer
          THEN NearestScan(sourceLines, targetLine, symbolMap, i + 1,
                           [found |-> TRUE, address |-> symbolMap[s].address,
                            distance |-> distance])
          ELSE NearestScan(sourceLines, targetLine, symbolMap, i + 1, nearest)

\* the same, with the bound on the target line off by one
FindAddressUsingNearestLabel_OffByOne(source, targetLine, symbolMap) ==
  IF ~source.exists \/ ~source.readable THEN NoAddress
  ELSE IF targetLine >= Len(source.lines) THEN NoAddress
  ELSE LET labelName == source.lines[targetLine].label
           s == FindSymbol(symbolMap, labelName)
           nearest == NearestScan(source.lines, targetLine, symbolMap, 1, NoNearest)
       IN IF labelName # "" /\ s # 0 THEN symbolMap[s].address
          ELSE IF nearest.found THEN nearest.address
          ELSE NoAddress

\* readFileSync of the source throws: null; targetLine past the last line: null;
\* Strategy 1: the label on the target line; Strategy 2: the nearest label
FindAddressUsingNearestLabel(source, targetLine, symbolMap) ==
  IF ~source.exists \/ ~source.readable THEN NoAddress
  ELSE IF targetLine > Len(source.lines) THEN NoAddress
  ELSE LET labelName == source.lines[targetLine].label
           s == FindSymbol(symbolMap, labelName)
           nearest == NearestScan(source.lines, targetLine, symbolMap, 1, NoNearest)
       IN IF labelName # "" /\ s # 0 THEN symbolMap[s].address
          ELSE IF nearest.found THEN nearest.address
          ELSE NoAddress

\* ---- findAddressForSourceLine
\* the listing loop: the address of the first entry for targetLine, 0 when none
FindListingEntry(lines, targetLine) ==
  FindIndex({i \in 1..Len(lines) : lines[i].entry /\ lines[i].line = targetLine})

\* the same, trying the labels before the listing
FindAddressForSourceLine_LabelsFirst(folder, listing, source, targetLine, symbolMap) ==
  LET byLabel == FindAddressUsingNearestLabel(source, targetLine, symbolMap)
      hit == FindListingEntry(listing.lines, targetLine)
  IN IF ~folder THEN NoAddress
     ELSE IF byLabel # NoAddress THEN byLabel
     ELSE IF listing.exists /\ listing.readable /\ hit # 0
     THEN ParseInt16(listing.lines[hit].hex)
     ELSE NoAddress

\* folder: a workspace folder is open
FindAddressForSourceLine(folder, listing, source, targetLine, symbolMap) ==
  IF ~folder THEN NoAddress
  ELSE IF ~listing.exists
  THEN FindAddressUsingNearestLabel(source, targetLine, symbolMap)
  ELSE IF ~listing.readable
  THEN FindAddressUsingNearestLabel(source, targetLine, symbolMap)
  ELSE LET hit == FindListingEntry(listing.lines, targetLine)
       IN IF hit # 0 THEN ParseInt16(listing.lines[hit].hex)
          ELSE FindAddressUsingNearestLabel(source, targetLine, symbolMap)

\* ---- getBreakpointAddresses
\* A host breakpoint: whether it is a SourceBreakpoint, and its line (1-based)
Breakpoint(isSource, line) == [isSource |-> isSource, line |-> line]

BreakpointLimit == 4

RECURSIVE ResolveBreakpoints_Reversed(_, _, _, _, _)
\* the loop when it puts each resolved breakpoint in front of the list
ResolveBreakpoints_Reversed(breakpoints, folder, listing, source, symbolMap) ==
  IF breakpoints = <<>> THEN <<>>
  ELSE LET b == Head(breakpoints)
           rest == ResolveBreakpoints_Reversed(Tail(breakpoints), folder, listing, source,
                                               symbolMap)
           address == FindAddressForSourceLine(folder, listing, source, b.line, symbolMap)
       IN IF b.isSource /\ address # NoAddress
          THEN rest \o <<[address |-> address, line |-> b.line]>>
          ELSE rest

RECURSIVE ResolveBreakpoints(_, _, _, _, _)
\* the loop over vscode.debug.breakpoints: one entry per source breakpoint
\* whose line has an address, in the host's order
ResolveBreakpoints(breakpoints, folder, listing, source, symbolMap) ==
  IF breakpoints = <<>> THEN <<>>
  ELSE LET b == Head(breakpoints)
           rest == ResolveBreakpoints(Tail(breakpoints), folder, listing, source, symbolMap)
           address == FindAddressForSourceLine(folder, listing, source, b.line, symbolMap)
       IN IF b.isSource /\ address # NoAddress
          THEN <<[address |-> address, line |-> b.line]>> \o rest
          ELSE rest

\* slice(0, 4)
Slice(s, n) == SubSeq(s, 1, IF Len(s) < n THEN Len(s) ELSE n)

GetBreakpointAddresses_NoLimit(breakpoints, folder, listing, source, bds) ==
  ResolveBreakpoints(breakpoints, folder, listing, source, ParseBdsFile(bds))

GetBreakpointAddresses(breakpoints, folder, listing, source, bds) ==
  Slice(ResolveBreakpoints(breakpoints, folder, listing, source, ParseBdsFile(bds)),
        BreakpointLimit)

RECURSIVE FormatBreakpointsForEmulator(_)
\* formatBreakpointsForEmulator: '-b' and the address in upper-case hex, per entry
FormatBreakpointsForEmulator(breakpoints) ==
  IF breakpoints = <<>> THEN <<>>
  ELSE <<Arg("-b"), ToUpperHex(Head(breakpoints).address)>>
         \o FormatBreakpointsForEmulator(Tail(breakpoints))

\* ---- the resolver on the files and breakpoints of one moment
\* the address texts in use
H5000 == <<"5", "0", "0", "0">>
H6000 == <<"6", "0", "0", "0">>
H6010 == <<"6", "0", "1", "0">>
H00af == <<"0", "0", "a", "f">>

\* sequences over S of length at most n
SeqsUpTo(S, n) == UNION {[1..k -> S] : k \in 0..n}

\* listing files: missing, unreadable, or up to MaxListing lines
ListingLines ==
  {ListingOther} \cup {ListingEntry(l, h) : l \in 1..2, h \in {H6000, H00af}}
Listings ==
  {NoText, TextFile(TRUE, FALSE, <<>>)}
    \cup {TextFile(TRUE, TRUE, ls) : ls \in SeqsUpTo(ListingLines, MaxListing)}

\* source files: unreadable, or up to MaxLine lines with or without a label
Labels == {"loop", "start"}
Sources ==
  {TextFile(TRUE, FALSE, <<>>)}
    \cup {TextFile(TRUE, TRUE, ls) :
            ls \in SeqsUpTo({SourceLine(l) : l \in Labels \cup {""}}, MaxLine)}

\* symbol files of the two labels, each defined at most once
SymbolFiles ==
  {TextFile(TRUE, FALSE, <<>>)}
    \cup {TextFile(TRUE, TRUE, ls) :
            ls \in {<<>>,
                    <<BdsLine("label", H6010, "loop")>>,
                    <<BdsLine("simple", H5000, "start")>>,
                    <<BdsLine("label", H6010, "loop"), BdsLine("source", H5000, "start")>>,
                    <<BdsComplexLine(H5000, "start", 1), BdsLine("label", H6010, "loop")>>}}

\* a workspace folder is open whenever a command reaches the resolver
\* (getSourceFile returns null without one)
Folders == {TRUE}

\* one line to resolve
InitResolve ==
  /\ Activated
  /\ call = NoCall
  /\ bpm \in {[NoBpm EXCEPT !.folder = f, !.listing = l, !.source = s, !.bds = b,
                            !.line = n] :
                f \in Folders, l \in Listings, s \in Sources, b \in SymbolFiles,
                n \in 1..(MaxLine + 1)}

\* findAddressForSourceLine(sourceFile, line, parseBdsFile(bdsFile))
FindAddress ==
  /\ bpm.op = "none" /\ bpm.line # 0
  /\ bpm' = [bpm EXCEPT
               !.op = "findAddress",
               !.address = FindAddressForSourceLine(bpm.folder, bpm.listing, bpm.source,
                                                    bpm.line, ParseBdsFile(bpm.bds))]
  /\ UNCHANGED <<currentInstance, child, task, lateErr, last, diagnostics, fs, call>>

NextResolve == FindAddress

ResolveSpec == InitResolve /\ [][NextResolve]_vars

\* the files of a debugging session
Session(listing, source, bds) == [listing |-> listing, source |-> source, bds |-> bds]

Sessions ==
  { \* a listing for lines 1 and 2, no labels: line 3 has no address
    Session(TextFile(TRUE, TRUE, <<ListingEntry(1, H6000), ListingOther, ListingEntry(2, H00af)>>),
            TextFile(TRUE, TRUE, <<SourceLine(""), SourceLine(""), SourceLine("")>>),
            TextFile(TRUE, TRUE, <<>>)),
    \* no listing, a label on line 2: line 1 has no address
    Session(NoText,
            TextFile(TRUE, TRUE, <<SourceLine(""), SourceLine("loop"), SourceLine("")>>),
            TextFile(TRUE, TRUE, <<BdsLine("label", H6010, "loop")>>)),
    \* every line has an address
    Session(TextFile(TRUE, TRUE, <<ListingEntry(2, H6000)>>),
            TextFile(TRUE, TRUE, <<SourceLine("start"), SourceLine(""), SourceLine("loop")>>),
            TextFile(TRUE, TRUE, <<BdsLine("simple", H5000, "start"), BdsLine("label", H6010, "loop")>>)),
    \* nothing can be read: no line has an address
    Session(TextFile(TRUE, FALSE, <<>>), TextFile(TRUE, FALSE, <<>>), TextFile(TRUE, FALSE, <<>>)) }

\* the host's breakpoints: source breakpoints on lines of the file (several
\* on a line differ in column) and breakpoints of other kinds
HostBreakpoints ==
  SeqsUpTo({Breakpoint(TRUE, l) : l \in 1..MaxLine} \cup {Breakpoint(FALSE, 1)},
           MaxBreakpoints)

InitBreakpoints ==
  /\ Activated
  /\ call = NoCall
  /\ bpm \in {[NoBpm EXCEPT !.listing = s.listing, !.source = s.source, !.bds = s.bds,
                            !.breakpoints = bs] :
                s \in Sessions, bs \in HostBreakpoints}

\* getBreakpointAddresses(bdsFile), then formatBreakpointsForEmulator
GetBreakpoints ==
  /\ bpm.op = "none" /\ bpm.line = 0
  /\ LET infos == GetBreakpointAddresses(bpm.breakpoints, bpm.folder, bpm.listing,
                                         bpm.source, bpm.bds)
     IN bpm' = [bpm EXCEPT !.op = "getBreakpoints", !.infos = infos,
                           !.args = FormatBreakpointsForEmulator(infos)]
  /\ UNCHANGED <<currentInstance, child, task, lateErr, last, diagnostics, fs, call>>

NextBreakpoints == GetBreakpoints

BreakpointsSpec == InitBreakpoints /\ [][NextBreakpoints]_vars

\* symbol files of up to MaxBds lines
BdsLines ==
  {BdsLine("marker", H5000, ""), BdsLine("marker", H00af, ""),
   BdsLine("label", H6000, "start"), BdsLine("label", H6010, "main"),
   BdsLine("simple", H5000, "MAIN"), BdsLine("source", H6000, ""),
   BdsLine("other", <<>>, "")}
BdsFiles ==
  {NoText, TextFile(TRUE, FALSE, <<>>)}
    \cup {TextFile(TRUE, TRUE, ls) : ls \in SeqsUpTo(BdsLines, MaxBds)}

InitEntry ==
  /\ Activated
  /\ call = NoCall
  /\ bpm \in {[NoBpm EXCEPT !.bds = b] : b \in BdsFiles}

\* getEntryPoint(bdsFile)
EntryPoint ==
  /\ bpm.op = "none"
  /\ bpm' = [bpm EXCEPT !.op = "getEntryPoint", !.address = GetEntryPoint(bpm.bds)]
  /\ UNCHANGED <<currentInstance, child, task, lateErr, last, diagnostics, fs, call>>

NextEntry == EntryPoint

EntrySpec == InitEntry /\ [][NextEntry]_vars

\* ---- parsing a symbol file
\* symbol files: missing, unreadable, or up to MaxBds lines of every layout
InitSymbols ==
  /\ Activated
  /\ call = NoCall
  /\ bpm \in {[NoBpm EXCEPT !.bds = b] :
               b \in {NoText, TextFile(TRUE, FALSE, <<>>)}
                      \cup {TextFile(TRUE, TRUE, ls) :
                              ls \in SeqsUpTo(BdsLines \cup {BdsComplexLine(H6010, "loop", 7)},
                                              MaxBds)}}

\* parseBdsFile(bdsFile)
ParseSymbols ==
  /\ bpm.op = "none"
  /\ bpm' = [bpm EXCEPT !.op = "parseBdsFile", !.infos = ParseBdsFile(bpm.bds)]
  /\ UNCHANGED <<currentInstance, child, task, lateErr, last, diagnostics, fs, call>>

NextSymbols == ParseSymbols

SymbolsSpec == InitSymbols /\ [][NextSymbols]_vars

\* ---- an address written as a '-b' flag and read back
\* the addresses of the machine: 0 .. 0xFFFF
MaxAddress == 65535

InitRoundTrip ==
  /\ Activated
  /\ call = NoCall
  /\ bpm \in {[NoBpm EXCEPT !.infos = <<[address |-> x, line |-> 1]>>] : x \in 0..MaxAddress}

\* formatBreakpointsForEmulator of the one breakpoint
FormatAddress ==
  /\ bpm.op = "none"
  /\ bpm' = [bpm EXCEPT !.op = "format", !.args = FormatBreakpointsForEmulator(bpm.infos)]
  /\ UNCHANGED <<currentInstance, child, task, lateErr, last, diagnostics, fs, call>>

\* parseInt(text, 16) of the flag's value
ParseAddress ==
  /\ bpm.op = "format"
  /\ bpm' = [bpm EXCEPT !.op = "parse", !.address = ParseInt16(bpm.args[2])]
  /\ UNCHANGED <<currentInstance, child, task, lateErr, last, diagnostics, fs, call>>

NextRoundTrip == FormatAddress \/ ParseAddress

RoundTripSpec == InitRoundTrip /\ [][NextRoundTrip]_vars

\* ---- parsing the assembler's standard error
MaxStderr == 3

\* the line of the example scenario: File 'demo.a80', line 7: Undefined symbol 'foo'
ExampleLine == StderrLine("structured", "demo.a80", 7, UndefinedSymbol, FALSE)

\* lines of standard error: structured and simple ones, with blanks around the
\* message, with only a blank after the colon, with "warning" in them, and
\* lines that match neither pattern
StderrLines ==
  { ExampleLine,
    StderrLine("structured", IncludeFile, 12,
               <<Blank, "warning:", Blank, "unused", Blank>>, TRUE),
    StderrLine("structured", SourceFile, 0, <<Blank>>, FALSE),
    StderrLine("simple", "", 3, <<"syntax", Blank, "error", Blank>>, FALSE),
    StderrLine("simple", "", 7, <<Blank, "warning">>, TRUE),
    StderrLine("other", "", 0, <<>>, FALSE) }

\* one standard-error text of up to MaxStderr lines to parse
InitParse ==
  /\ Activated
  /\ bpm = NoBpm
  /\ call \in {[op |-> "none", stderr |-> t, sourceFile |-> f, errors |-> <<>>] :
                t \in SeqsUpTo(StderrLines, MaxStderr), f \in Files}

\* parseZmacErrors(stderr, sourceFile)
ParseErrors ==
  /\ call.op = "none"
  /\ call' = [call EXCEPT !.op = "parseZmacErrors",
                          !.errors = ParseZmacErrors(call.stderr, call.sourceFile)]
  /\ UNCHANGED <<currentInstance, child, task, lateErr, last, diagnostics, fs, bpm>>

NextParse == ParseErrors

ParseSpec == InitParse /\ [][NextParse]_vars

\* ---- reading the configuration
\* project files: none, one that does not parse, and files with each field
\* absent or present
ProjectFiles ==
  {NoProjectFile, BrokenProjectFile}
    \cup {ProjectFile(o, e, t) : o \in {Undefined, "build"},
                                 e \in {Undefined, "-m1", ArrayValue},
                                 t \in {Undefined, "model1"}}

\* editor settings: emulatorArgs has no declared default, defaultOutputDir and
\* defaultTarget have one (package.json) and can be set to another value or
\* to the empty string
EditorSettings ==
  {Settings(e, o, t) : e \in {Undefined, "", "-m4"},
                       o \in {".zout", "", "out"},
                       t \in {"model3", "", "model4"}}

InitConfig ==
  /\ Activated
  /\ bpm = NoBpm
  /\ call \in {[op |-> "none", project |-> p, settings |-> g, config |-> DefaultConfig] :
                p \in ProjectFiles, g \in EditorSettings}

\* ConfigurationManager.getConfiguration()
ReadConfiguration ==
  /\ call.op = "none"
  /\ call' = [call EXCEPT !.op = "getConfiguration",
                          !.config = GetConfiguration(call.project, call.settings)]
  /\ UNCHANGED <<currentInstance, child, task, lateErr, last, diagnostics, fs, bpm>>

NextConfig == ReadConfiguration

ConfigSpec == InitConfig /\ [][NextConfig]_vars

\* =========================================================== TRS80Commands
\* a command that ends here, in the way `why`
CommandEnds(t, r, why, result) ==
  /\ task' = [task EXCEPT ![t] = NoTask]
  /\ last' = [Settle(r, "resolved") EXCEPT !.why = why, !.result = result]

\* what a debugging session finds: the files on disk (the text of the symbol
\* file, once it is written) and the host's breakpoints
DebugSession(s, breakpoints) ==
  [NoBpm EXCEPT !.listing = s.listing, !.source = s.source, !.bds = s.bds,
                !.breakpoints = breakpoints]

DebugSessions ==
  { \* no breakpoints, a symbol file with an entry marker
    DebugSession(Session(NoText, NoText,
                         TextFile(TRUE, TRUE, <<BdsLine("label", H6010, "loop"),
                                                BdsLine("marker", H5000, "")>>)), <<>>),
    \* no breakpoints, a symbol file without marker and symbols
    DebugSession(Session(NoText, NoText, TextFile(TRUE, TRUE, <<BdsLine("other", <<>>, "")>>)),
                 <<>>),
    \* breakpoints on lines 1 and 3 and a listing for lines 1 and 2
    DebugSession(Session(TextFile(TRUE, TRUE, <<ListingEntry(1, H6000), ListingEntry(2, H00af)>>),
                         TextFile(TRUE, TRUE, <<SourceLine(""), SourceLine(""), SourceLine("")>>),
                         TextFile(TRUE, TRUE, <<BdsLine("marker", H5000, "")>>)),
                 <<Breakpoint(TRUE, 3), Breakpoint(TRUE, 1)>>),
    \* a breakpoint, no listing and an unreadable source; symbols without marker
    DebugSession(Session(NoText, TextFile(TRUE, FALSE, <<>>),
                         TextFile(TRUE, TRUE, <<BdsLine("label", H6010, "loop")>>)),
                 <<Breakpoint(TRUE, 2)>>),
    \* five breakpoints on lines that all have an address
    DebugSession(Session(TextFile(TRUE, TRUE, <<ListingEntry(1, H6000), ListingEntry(2, H00af)>>),
                         NoText, TextFile(TRUE, TRUE, <<>>)),
                 <<Breakpoint(TRUE, 1), Breakpoint(TRUE, 2), Breakpoint(TRUE, 1),
                   Breakpoint(TRUE, 2), Breakpoint(TRUE, 1)>>) }

\* prepareEmulatorArgs: in debug mode with a symbol file, the flags of the
\* resolved breakpoints, or of the entry point when none resolves
\* (resolved, dropped, entry: what was found on the way)
PrepareEmulatorArgs(isDebugMode, bds, d) ==
  IF isDebugMode /\ bds
  THEN LET breakpoints == GetBreakpointAddresses(d.breakpoints, TRUE, d.listing, d.source, d.bds)
           all == ResolveBreakpoints(d.breakpoints, TRUE, d.listing, d.source,
                                     ParseBdsFile(d.bds))
           sources == {i \in 1..Len(d.breakpoints) : d.breakpoints[i].isSource}
           entryPoint == GetEntryPoint(d.bds)
       IN [done |-> TRUE,
           resolved |-> Len(breakpoints),
           dropped |-> Cardinality(sources) - Len(all),
           entry |-> IF Len(breakpoints) > 0 THEN NoAddress ELSE entryPoint,
           breakpointArgs |->
             IF Len(breakpoints) > 0 THEN FormatBreakpointsForEmulator(breakpoints)
             ELSE IF entryPoint # NoAddress THEN <<Arg("-b"), ToUpperHex(entryPoint)>>
             ELSE <<>>]
  ELSE [NoPrep EXCEPT !.done = TRUE]

\* executeWithMode after a successful performAssembly: prepareEmulatorArgs,
\* then TRS80Commands.startEmulator up to the await inside
\* EmulatorManager.startEmulator.  bds, cmd: what getOutputFiles found.
AfterAssembly(t, r, result, bds, cmd, why, ko) ==
  IF r.op = "assemble"
  THEN /\ CommandEnds(t, r, why, result)
       /\ UNCHANGED <<currentInstance, child>>
  ELSE LET r2 == [r EXCEPT !.bp = (r.op = "debug" /\ bds),
                           !.prep = PrepareEmulatorArgs(r.op = "debug", bds, bpm)] IN
       IF ~bds
       THEN /\ CommandEnds(t, r2, "noBds", NoResult)
            /\ UNCHANGED <<currentInstance, child>>
       ELSE IF ~cmd
       THEN /\ CommandEnds(t, r2, "noCmd", NoResult)
            /\ UNCHANGED <<currentInstance, child>>
       ELSE StopEmulatorSync(t, r2, ko)

\* performAssembly's result when the artifact is up to date
SkippedResult(outputFiles) == AssemblyResult(TRUE, outputFiles, <<>>)

\* whether performAssembly and executeWithMode go on with this result
Usable(result) == result.success

\* run() / debug(): getConfiguration, validateConfiguration
CommandRun(t, op) ==
  /\ CommandCallable(t)
  /\ \E setting \in EmulatorPathSettings,
        onDisk \in SUBSET {DefaultEmulatorPath, CustomEmulatorPath} :
       LET path == GetEmulatorPath(setting)
           r == [Call(op) EXCEPT
                   !.cfg = IF path # "" /\ path \in onDisk THEN "valid" ELSE "invalid"]
       IN IF ValidateConfiguration(path, onDisk) # <<>>
          THEN /\ last' = [Settle(r, "resolved") EXCEPT !.why = "configError"]
               /\ UNCHANGED task
          ELSE /\ task' = [task EXCEPT ![t] = [r EXCEPT !.pc = "source"]]
               /\ UNCHANGED last
  /\ UNCHANGED <<currentInstance, child, lateErr, others>>

\* assembleOnly(): performAssembly without arguments
CommandAssemble(t) ==
  /\ CommandCallable(t)
  /\ task' = [task EXCEPT ![t] = [Call("assemble") EXCEPT !.pc = "source"]]
  /\ UNCHANGED <<currentInstance, child, lateErr, last, others>>

\* getSourceFile returned; performAssembly up to the await of assemble()
GotSourceFile(t) ==
  /\ task[t].pc = "source"
  /\ \/ \* no source file: the command ends
        /\ CommandEnds(t, task[t], "noSource", NoResult)
        /\ UNCHANGED <<currentInstance, child>>
     \/ \* up to date: the mock result, no assembler
        /\ ~NeedsAssembly(fs.srcM, fs.bdsM)
        /\ \E cmd \in BOOLEAN, ko \in KillOutcomes :
             LET result == SkippedResult(GetOutputFiles(fs.bdsM # NoFile, cmd))
             IN Usable(result)
                /\ AfterAssembly(t, task[t], result, fs.bdsM # NoFile, cmd, "skipped", ko)
     \/ \* assemble(): mkdirSync of a missing output directory throws
        /\ NeedsAssembly(fs.srcM, fs.bdsM)
        /\ fs.bdsM = NoFile
        /\ task' = [task EXCEPT ![t] = NoTask]
        /\ last' = [Settle(task[t], IF task[t].op = "assemble" THEN "rejected"
                                    ELSE "resolved")
                      EXCEPT !.why = "mkdirFailed", !.err = "EACCES"]
        /\ UNCHANGED <<currentInstance, child>>
     \/ \* assemble(): the assembler is spawned
        /\ NeedsAssembly(fs.srcM, fs.bdsM)
        /\ task' = [task EXCEPT ![t].pc = "asmwait"]
        /\ UNCHANGED <<currentInstance, child, last>>
  /\ UNCHANGED <<lateErr, others>>

\* the 'close' event of the assembler; the rest of performAssembly and of
\* executeWithMode up to the next await
AsmClose(t) ==
  /\ task[t].pc = "asmwait"
  /\ \E code \in ExitCodes, text \in StderrTexts, cmd \in BOOLEAN,
        written \in Times \cup {fs.bdsM}, ko \in KillOutcomes :
       LET errors == ParseZmacErrors(text, SourceFile)
           result == AssemblyResult(Success(code), GetOutputFiles(written # NoFile, cmd),
                                    errors)
           r == [task[t] EXCEPT !.exit = IF code = 0 THEN "zero"
                                         ELSE IF code = NullCode THEN "signal"
                                         ELSE "nonzero"]
       IN /\ fs' = [fs EXCEPT !.bdsM = written]
          /\ diagnostics' = UpdateDiagnostics(diagnostics, errors)
          /\ IF Usable(result)
             THEN AfterAssembly(t, r, result, written # NoFile, cmd, "assembled", ko)
             ELSE /\ CommandEnds(t, r, "asmFailed", result)
                  /\ UNCHANGED <<currentInstance, child>>
  /\ UNCHANGED <<lateErr, bpm, call>>

\* the 'error' event of an assembler that could not be spawned
AsmError(t) ==
  /\ task[t].pc = "asmwait"
  /\ diagnostics' = UpdateDiagnostics(diagnostics, SpawnErrorDiagnostics(SourceFile))
  /\ CommandEnds(t, [task[t] EXCEPT !.exit = "spawnError"], "asmFailed",
                 AssemblyResult(FALSE, {}, SpawnErrorDiagnostics(SourceFile)))
  /\ UNCHANGED <<currentInstance, child, lateErr, fs, bpm, call>>

\* the user saves, deletes or restores the source file; the artifact is removed
TouchFiles ==
  /\ \E m \in Times \cup {NoFile}, b \in {fs.bdsM, NoFile} :
       fs' = [srcM |-> m, bdsM |-> b]
  /\ UNCHANGED <<currentInstance, child, task, lateErr, last, diagnostics, bpm, call>>

\* a first emulator, started through the supervisor before any command runs
FirstStart(t) == FreePids = Pids /\ ~AnyInFlight /\ StartCall(t)

\* the commands of the extension
NextCmd ==
  \/ \E t \in Tasks : CommandRun(t, "run")
  \/ \E t \in Tasks : CommandRun(t, "debug")
  \/ \E t \in Tasks : GotSourceFile(t)
  \/ \E t \in Tasks : AsmClose(t)
  \/ \E t \in Tasks : AsmError(t)
  \/ \E t \in Tasks : FirstStart(t)
  \/ \E t \in Tasks : TimerFire(t)
  \/ \E t \in Tasks : StartSpawn(t)
  \/ \E c \in Pids : SpawnEvent(c)
  \/ \E c \in Pids : ChildDies(c)
  \/ \E c \in Pids : ExitEvent(c)
  \/ LateErrorEvent

CmdSpec == Init /\ [][NextCmd]_vars

\* the commands in a workspace with a listing, symbols and breakpoints
InitDebug == Activated /\ call = NoCall /\ bpm \in DebugSessions

DebugSpec == InitDebug /\ [][NextCmd]_vars

\* assembly requests alone
NextAsm ==
  \/ \E t \in Tasks : CommandAssemble(t)
  \/ \E t \in Tasks : GotSourceFile(t)
  \/ \E t \in Tasks : AsmClose(t)
  \/ \E t \in Tasks : AsmError(t)
  \/ TouchFiles

AsmSpec == Init /\ [][NextAsm]_vars

TypeOK ==
  /\ currentInstance \in Pids \cup {NoPid}
  /\ lateErr \in 0..MaxLate
  /\ \A c \in Pids : child[c].st \in {"none", "running", "dead", "exited"}
  /\ \A t \in Tasks :
       task[t].pc \in {"idle", "source", "asmwait", "stopping", "afterStop", "spawning"}
  /\ fs.srcM \in Times \cup {NoFile} /\ fs.bdsM \in Times \cup {NoFile}

\* ================================================================= claims

\* C1: in every reachable state, under any interleaving of start() and stop()
\* calls, child events and stop timers, at most one emulator child spawned by
\* the supervisor is alive.
C1_AtMostOneChildAlive == Cardinality(AliveSet) <= 1

\* C2: when calls are issued one at a time, a start() spawns its child only
\* after every earlier child has terminated, and once a start() has resolved
\* no child other than the recorded one is alive.
C2_PriorStoppedBeforeSpawn ==
  /\ \A t \in Tasks : task[t].pc = "spawning" =>
        \A c \in Pids \ {task[t].inst} : ~Alive(c)
  /\ (last.op = "start" /\ last.res = "resolved" /\ ~AnyInFlight) =>
        /\ AliveSet \subseteq {last.inst}
        /\ currentInstance = last.inst \/ child[last.inst].st = "exited"

\* a stopEmulator call that waits settles or queues its continuation in this step
StopCompletes(t) == task[t].pc = "stopping" /\ task'[t].pc # "stopping"

\* C3: stop() on a recorded instance sends SIGTERM first and then waits for
\* the exit; SIGKILL is sent only by the timer of a stop still waiting, after
\* SIGTERM and never after the exit was observed; a waiting stop always
\* completes, and the stored instance is null when it does.
C3_GracefulThenForced ==
  /\ [][\A t \in Tasks :
          (task[t].pc # "stopping" /\ task'[t].pc = "stopping") =>
             /\ task'[t].wait = currentInstance /\ task'[t].timer
             /\ child[task'[t].wait].sent # "SIGKILL"
             /\ child'[task'[t].wait].sent = "SIGTERM"]_vars
  /\ [][\A c \in Pids :
          (child[c].sent # "SIGKILL" /\ child'[c].sent = "SIGKILL") =>
             /\ child[c].sent = "SIGTERM"
             /\ child[c].st # "exited"
             /\ \E t \in Tasks : task[t].timer /\ task[t].wait = c /\ StopCompletes(t)]_vars
  /\ [][\A t \in Tasks : StopCompletes(t) =>
          /\ currentInstance' = NoPid
          /\ ~task'[t].timer]_vars
  /\ \A t \in Tasks : (task[t].pc = "stopping") ~> (task[t].pc # "stopping")

C3_Witness ==
  /\ last.op = "stop" /\ last.how = "timer" /\ currentInstance = NoPid
  /\ \E c \in Pids : child[c].sent = "SIGKILL" /\ child[c].st = "running"

\* C4: when the recorded child exits and no stop() was called on it, the exit
\* event clears the stored instance; the instance then stays null, and
\* status() reports none, until a start() resolves.
C4_ExitClearsInstance ==
  /\ [][\A c \in Pids :
          (child[c].st = "dead" /\ child'[c].st = "exited" /\ currentInstance = c
             /\ StopListeners(c) = {} /\ ~child[c].stale)
          => currentInstance' = NoPid]_vars
  /\ [][(currentInstance = NoPid /\ currentInstance' # NoPid) =>
          (last'.op = "start" /\ last'.res = "resolved"
             /\ last'.inst = currentInstance')]_vars
  /\ [][(last' # last /\ last'.op = "status") => last'.inst = currentInstance]_vars

C4_Witness ==
  /\ last.op = "status" /\ last.inst = NoPid /\ currentInstance = NoPid
  /\ \E c \in Pids : child[c].st = "exited" /\ child[c].sent = "none"

\* C5: when spawning fails, start() rejects with the operating system's
\* error unchanged and records no instance.
C5_SpawnFailureSurfacesOsError ==
  (last.op = "start" /\ last.res = "rejected" /\ last.osErr # "none") =>
     (last.err = last.osErr /\ last.inst = NoPid)

\* C6: stop() called while no instance is recorded settles at once, without
\* error, sends no signal, arms no timer and leaves the stored instance null.
C6_StopWhenIdleIsNoOp ==
  [][currentInstance = NoPid =>
       /\ \A t \in Tasks : task'[t].op = "stop" => task[t].op = "stop"
       /\ (last' # last /\ last'.op = "stop" /\ task' = task) =>
            /\ last'.res = "resolved" /\ last'.how = "immediate"
            /\ child' = child
            /\ currentInstance' = NoPid]_vars

C6_Witness ==
  /\ last.op = "stop" /\ last.how = "immediate" /\ last.res = "resolved"
  /\ currentInstance = NoPid
  /\ \E c \in Pids : child[c].st = "exited"

\* C7: stop() never fails: whatever kill() does, a stop() that settles is
\* resolved, and the stored instance is null when it settles.
C7_StopNeverFails ==
  [][(last' # last /\ last'.op = "stop") =>
       (last'.res = "resolved" /\ last'.err = "none" /\ currentInstance' = NoPid)]_vars

C7_Witness ==
  /\ last.op = "stop" /\ last.how = "killThrew" /\ last.res = "resolved"
  /\ currentInstance = NoPid

\* an execution of run or debug sees its assembler exit with a non-zero code
AssemblerFails(t) ==
  /\ task[t].pc = "asmwait" /\ task[t].op \in {"run", "debug"}
  /\ \/ task'[t].pc \notin {"asmwait", "idle"} /\ task'[t].exit = "nonzero"
     \/ task'[t].pc = "idle" /\ last'.exit = "nonzero"

\* C8: when the assembler of a Run or Debug execution exits with a non-zero
\* code, the diagnostics of that run are published, the execution ends there
\* without resolving breakpoints and without calling the supervisor's
\* start(), and the recorded instance and the children are left as they were.
C8_FailedAssemblyEndsExecution ==
  /\ [](\A t \in Tasks : task[t].exit # "nonzero")
  /\ [][\A t \in Tasks : AssemblerFails(t) =>
          /\ task'[t] = NoTask
          /\ last'.op = task[t].op /\ last'.why = "asmFailed"
          /\ ~last'.bp /\ last'.how = "none"
          /\ ~last'.result.success
          /\ \A f \in Files : diagnostics'[f] = DiagnosticsOf(last'.result.errors, f)
          /\ currentInstance' = currentInstance
          /\ child' = child]_vars

C8_Witness ==
  /\ last.op = "debug" /\ last.exit = "nonzero" /\ last.why = "asmFailed"
  /\ diagnostics[SourceFile] # <<>>
  /\ currentInstance # NoPid /\ child[1].st = "running" /\ child[1].sent = "none"

\* C9: a Run or Debug execution whose emulator path is empty or not on disk
\* reports the error and ends at once: no assembler and no emulator is
\* spawned, and the stored instance, the children, the diagnostics and the
\* files are unchanged.
C9_InvalidConfigurationAborts ==
  /\ [](\A t \in Tasks : task[t].cfg # "invalid")
  /\ [][(last' # last /\ last'.cfg = "invalid") =>
          /\ last'.why = "configError"
          /\ task' = task
          /\ currentInstance' = currentInstance /\ child' = child
          /\ diagnostics' = diagnostics /\ fs' = fs]_vars

C9_Witness ==
  /\ last.op = "run" /\ last.cfg = "invalid" /\ last.why = "configError"
  /\ diagnostics[SourceFile] # <<>>
  /\ currentInstance # NoPid /\ child[1].st = "running"

\* performAssembly takes its decision for a source file in this step
AssemblyRequested(t) ==
  /\ task[t].pc = "source" /\ task'[t].pc # "source"
  /\ ~(task'[t].pc = "idle" /\ last'.why = "noSource")

\* C10: when the .bds artifact exists and the source is not newer than it, an
\* assembly request spawns no assembler and yields success with an empty
\* diagnostic list; when the artifact is missing or the source is strictly
\* newer, assemble() is called (the assembler is spawned, unless creating the
\* output directory throws).
C10_SkipsWhenUpToDate ==
  [][\A t \in Tasks : AssemblyRequested(t) =>
       /\ (fs.bdsM # NoFile /\ fs.srcM # NoFile /\ fs.srcM <= fs.bdsM) =>
            /\ task'[t].pc = "idle"
            /\ last'.why = "skipped" /\ last'.res = "resolved"
            /\ last'.result.known /\ last'.result.success
            /\ last'.result.errors = <<>>
            /\ diagnostics' = diagnostics
       /\ (fs.bdsM = NoFile \/ (fs.srcM # NoFile /\ fs.srcM > fs.bdsM)) =>
            \/ task'[t].pc = "asmwait"
            \/ task'[t].pc = "idle" /\ last'.why = "mkdirFailed"]_vars

C10_Witness ==
  /\ last.op = "assemble" /\ last.why = "skipped"
  /\ fs.srcM # NoFile /\ fs.srcM = fs.bdsM

\* ---- the breakpoint resolver
\* the listing file is read and has an entry for line n
HasListingEntry(listing, n) ==
  /\ listing.exists /\ listing.readable
  /\ \E i \in 1..Len(listing.lines) : listing.lines[i].entry /\ listing.lines[i].line = n

\* the symbols a symbol text defines, as label and address
KnownSymbols(bds) ==
  IF bds.exists /\ bds.readable
  THEN {[label |-> bds.lines[i].label, address |-> ParseInt16(bds.lines[i].hex)] :
          i \in {j \in 1..Len(bds.lines) :
                   /\ bds.lines[j].kind \in {"label", "source", "simple", "complex"}
                   /\ bds.lines[j].label # ""}}
  ELSE {}

\* the lines of the source, up to line n, that carry the label of a known symbol
LabelledUpTo(source, bds, n) ==
  IF source.exists /\ source.readable
  THEN {i \in 1..Len(source.lines) :
          /\ i <= n
          /\ \E k \in KnownSymbols(bds) : k.label = source.lines[i].label}
  ELSE {}

\* C11 as stated: for every listing text that contains an entry with source
\* line L and address A, resolving a breakpoint at line L yields exactly A.
C11_EveryListingEntryWins ==
  (bpm.op = "findAddress" /\ bpm.listing.exists /\ bpm.listing.readable) =>
    \A i \in 1..Len(bpm.listing.lines) :
      (bpm.listing.lines[i].entry /\ bpm.listing.lines[i].line = bpm.line) =>
        bpm.address = ParseInt16(bpm.listing.lines[i].hex)

\* C11, amended: when the listing text contains entries for source line L,
\* resolving a breakpoint at line L yields the address of the first of them in
\* the order of the text, whatever symbols and source labels are present.
C11_FirstListingEntryWins ==
  (bpm.op = "findAddress" /\ bpm.listing.exists /\ bpm.listing.readable) =>
    \A i \in 1..Len(bpm.listing.lines) :
      ( /\ bpm.listing.lines[i].entry /\ bpm.listing.lines[i].line = bpm.line
        /\ \A j \in 1..(i - 1) :
             ~(bpm.listing.lines[j].entry /\ bpm.listing.lines[j].line = bpm.line) ) =>
        bpm.address = ParseInt16(bpm.listing.lines[i].hex)

C11_Witness ==
  /\ bpm.op = "findAddress" /\ bpm.line = 2
  /\ bpm.listing.lines = <<ListingOther, ListingEntry(2, H00af)>>
  /\ bpm.source.readable /\ Len(bpm.source.lines) = 2
  /\ bpm.source.lines[2].label = "loop"
  /\ [label |-> "loop", address |-> 24592] \in KnownSymbols(bpm.bds)
  /\ bpm.address = 175

\* C13: a breakpoint line with no listing entry whose text begins with the
\* label of a known symbol resolves to that symbol's address, whatever other
\* labelled lines the source holds.
C13_LabelOnLineResolves ==
  ( /\ bpm.op = "findAddress"
    /\ ~HasListingEntry(bpm.listing, bpm.line)
    /\ bpm.source.exists /\ bpm.source.readable
    /\ bpm.line <= Len(bpm.source.lines) ) =>
    \A k \in KnownSymbols(bpm.bds) :
      k.label = bpm.source.lines[bpm.line].label => bpm.address = k.address

C13_Witness ==
  /\ bpm.op = "findAddress" /\ bpm.line = 2
  /\ bpm.listing.exists /\ bpm.listing.readable
  /\ bpm.listing.lines = <<ListingEntry(1, H6000)>>
  /\ bpm.source.readable /\ Len(bpm.source.lines) = 3
  /\ bpm.source.lines[1].label = "start"
  /\ bpm.source.lines[2].label = "loop"
  /\ bpm.source.lines[3].label = "start"
  /\ Cardinality(KnownSymbols(bpm.bds)) = 2
  /\ bpm.address = 24592

\* the line of the source a breakpoint at bpm.line falls back to: the nearest
\* line at or before it that carries the label of a known symbol
NearestLabelled ==
  CHOOSE i \in LabelledUpTo(bpm.source, bpm.bds, bpm.line) :
    \A j \in LabelledUpTo(bpm.source, bpm.bds, bpm.line) : j <= i

\* the breakpoint line has no listing entry and no label of a known symbol
NeitherListingNorLabel ==
  /\ bpm.op = "findAddress"
  /\ ~HasListingEntry(bpm.listing, bpm.line)
  /\ bpm.line \notin LabelledUpTo(bpm.source, bpm.bds, bpm.line)

\* C14 as stated: every breakpoint line with no listing entry and no matching
\* label on the line itself resolves to the symbol of the nearest labelled
\* line at or before it; labels after the target are never used.
C14_NearestPrecedingLabel ==
  NeitherListingNorLabel =>
    IF LabelledUpTo(bpm.source, bpm.bds, bpm.line) # {}
    THEN \A k \in KnownSymbols(bpm.bds) :
           k.label = bpm.source.lines[NearestLabelled].label => bpm.address = k.address
    ELSE bpm.address = NoAddress

\* C14, amended: the same for every breakpoint line that is a line of the
\* source file as read from disk; a breakpoint past the last line of the file
\* resolves to nothing.
C14_NearestPrecedingLabelInFile ==
  NeitherListingNorLabel =>
    IF bpm.source.exists /\ bpm.source.readable /\ bpm.line > Len(bpm.source.lines)
    THEN bpm.address = NoAddress
    ELSE IF LabelledUpTo(bpm.source, bpm.bds, bpm.line) # {}
    THEN \A k \in KnownSymbols(bpm.bds) :
           k.label = bpm.source.lines[NearestLabelled].label => bpm.address = k.address
    ELSE bpm.address = NoAddress

C14_Witness ==
  /\ bpm.op = "findAddress" /\ bpm.line = 3
  /\ ~bpm.listing.exists
  /\ bpm.source.readable /\ Len(bpm.source.lines) = 3
  /\ bpm.source.lines[1].label = "start"
  /\ bpm.source.lines[2].label = "loop"
  /\ bpm.source.lines[3].label = ""
  /\ Cardinality(KnownSymbols(bpm.bds)) = 2
  /\ bpm.address = 24592

\* the source breakpoints of the host whose line has an address
Resolvable ==
  {i \in 1..Len(bpm.breakpoints) :
     /\ bpm.breakpoints[i].isSource
     /\ FindAddressForSourceLine(bpm.folder, bpm.listing, bpm.source,
                                 bpm.breakpoints[i].line, ParseBdsFile(bpm.bds)) # NoAddress}

\* C12: the resolver returns min(r, 4) entries, r the number of resolvable
\* source breakpoints: exactly 4 when more than 4 resolve and never more, so
\* the flags made from them hold at most 4 '-b'.
C12_AtMostFourBreakpoints ==
  bpm.op = "getBreakpoints" =>
    /\ Len(bpm.infos) = (IF Cardinality(Resolvable) > 4 THEN 4 ELSE Cardinality(Resolvable))
    /\ Len(bpm.args) = 2 * Len(bpm.infos)
    /\ Cardinality({i \in 1..Len(bpm.args) : bpm.args[i] = Arg("-b")}) <= 4

C12_Witness ==
  /\ bpm.op = "getBreakpoints"
  /\ Cardinality(Resolvable) = 5
  /\ Len(bpm.infos) = 4
  /\ Len(bpm.args) = 8

\* ---- the entry point
\* the address of the first marker line of a symbol text, NoAddress without one
FirstMarker(bds) ==
  IF bds.exists /\ bds.readable /\ \E i \in 1..Len(bds.lines) : bds.lines[i].kind = "marker"
  THEN ParseInt16(bds.lines[CHOOSE i \in 1..Len(bds.lines) :
                              /\ bds.lines[i].kind = "marker"
                              /\ \A j \in 1..(i - 1) : bds.lines[j].kind # "marker"].hex)
  ELSE NoAddress

\* the lines of a symbol text that define a symbol
SymbolLines(bds) ==
  IF bds.exists /\ bds.readable
  THEN {i \in 1..Len(bds.lines) :
          /\ bds.lines[i].kind \in {"label", "source", "simple", "complex"}
          /\ bds.lines[i].label # ""}
  ELSE {}

\* the least element of a non-empty set of line numbers
Least(S) == CHOOSE i \in S : \A j \in S : i <= j

\* the entry point by the priority: marker, symbol with a label among mainLabels,
\* first symbol, none
EntryByPriority(bds, mainLabels) ==
  LET mains == {i \in SymbolLines(bds) : bds.lines[i].label \in mainLabels}
  IN IF FirstMarker(bds) # NoAddress THEN FirstMarker(bds)
     ELSE IF mains # {} THEN ParseInt16(bds.lines[Least(mains)].hex)
     ELSE IF SymbolLines(bds) # {} THEN ParseInt16(bds.lines[Least(SymbolLines(bds))].hex)
     ELSE NoAddress

LabelledMain == {"main"}
LabelledMainAnyCase == {"main", "Main", "MAIN"}

\* C16 as stated: the first marker; otherwise a symbol labelled 'main';
\* otherwise the first symbol; null exactly without marker and symbols.
C16_EntryPointPriority ==
  bpm.op = "getEntryPoint" => bpm.address = EntryByPriority(bpm.bds, LabelledMain)

\* C16, amended: the same, where the second choice is the first symbol whose
\* label is 'main' in any letter case.
C16_EntryPointPriorityAnyCase ==
  bpm.op = "getEntryPoint" =>
    /\ bpm.address = EntryByPriority(bpm.bds, LabelledMainAnyCase)
    /\ (bpm.address = NoAddress) <=>
         (FirstMarker(bpm.bds) = NoAddress /\ SymbolLines(bpm.bds) = {})

C16_Witness ==
  /\ bpm.op = "getEntryPoint"
  /\ bpm.bds.lines = <<BdsLine("label", H6000, "start"), BdsLine("label", H6010, "main"),
                       BdsLine("marker", H00af, "")>>
  /\ bpm.address = 175

\* ---- the emulator invocation of Run and Debug
\* startEmulator goes on after the stop of the previous instance
StartGoesOn(t) == task[t].pc = "afterStop" /\ task'[t].pc # "afterStop"

\* in this step spawn() is called for the start of task t
Invoked(t) ==
  \/ task'[t].pc = "spawning"
  \/ task'[t].pc = "idle" /\ last'.osErr # "none"

\* the argument vector of that call
InvokedArgs(t) == IF task'[t].pc = "spawning" THEN task'[t].args ELSE last'.args

RECURSIVE BreakpointFlags(_)
\* the '-b' flags of an argument vector, each with its address
BreakpointFlags(args) ==
  IF Len(args) < 2 THEN <<>>
  ELSE IF Head(args) = Arg("-b")
  THEN <<args[1], args[2]>> \o BreakpointFlags(SubSeq(args, 3, Len(args)))
  ELSE BreakpointFlags(Tail(args))

\* the source breakpoints of the session whose line has an address
SessionResolvable ==
  {i \in 1..Len(bpm.breakpoints) :
     /\ bpm.breakpoints[i].isSource
     /\ FindAddressForSourceLine(TRUE, bpm.listing, bpm.source,
                                 bpm.breakpoints[i].line, ParseBdsFile(bpm.bds)) # NoAddress}

\* C15: a breakpoint for which no strategy yields an address is omitted and
\* never makes resolution or Debug fail: the other breakpoints are resolved
\* (up to the limit) and the emulator is started.
C15_UnresolvedBreakpointDropped ==
  [][\A t \in Tasks :
       (StartGoesOn(t) /\ task[t].op = "debug" /\ task[t].prep.dropped > 0) =>
         /\ task[t].prep.resolved =
              (IF Cardinality(SessionResolvable) > 4 THEN 4
               ELSE Cardinality(SessionResolvable))
         /\ Invoked(t)]_vars

\* C17: Debug with zero resolved breakpoints and an entry point E starts the
\* emulator with the one flag pair '-b' E (upper-case hex); with a resolved
\* breakpoint the entry point is not added; without an entry point no
\* breakpoint flag is passed.
C17_EntryPointBreakpoint ==
  [][\A t \in Tasks :
       (StartGoesOn(t) /\ task[t].op = "debug") =>
         /\ Invoked(t)
         /\ BreakpointFlags(InvokedArgs(t)) =
              (IF task[t].prep.resolved > 0 THEN task[t].prep.breakpointArgs
               ELSE IF GetEntryPoint(bpm.bds) # NoAddress
               THEN <<Arg("-b"), ToUpperHex(GetEntryPoint(bpm.bds))>>
               ELSE <<>>)
         /\ Len(BreakpointFlags(InvokedArgs(t))) =
              (IF task[t].prep.resolved > 0 THEN 2 * task[t].prep.resolved
               ELSE IF GetEntryPoint(bpm.bds) # NoAddress THEN 2 ELSE 0)]_vars

\* C18: Run starts the emulator without any breakpoint flag, whatever
\* breakpoints the editor holds and whatever the symbol file contains.
C18_RunPassesNoBreakpoints ==
  [][\A t \in Tasks :
       (StartGoesOn(t) /\ task[t].op = "run") =>
         /\ Invoked(t)
         /\ BreakpointFlags(InvokedArgs(t)) = <<>>]_vars

\* C19: every emulator invocation of Run or Debug has the argument vector:
\* the model flag of the target, the user arguments (none by default), the
\* breakpoint flags, '-ls' and the symbol file iff it is on disk, and the
\* command file last.
C19_ArgumentVector ==
  [][\A t \in Tasks :
       (StartGoesOn(t) /\ task[t].op \in {"run", "debug"}) =>
         /\ Invoked(t)
         /\ \E target \in Targets :
              InvokedArgs(t) =
                <<GetModelFlag(target)>> \o task[t].prep.breakpointArgs
                  \o (IF fs.bdsM # NoFile THEN <<Arg("-ls"), BdsFile>> ELSE <<>>)
                  \o <<CmdFile>>]_vars

\* ---- the assembly result
\* the assembler of an assembly request closes in this step
AssemblerCloses(t) ==
  /\ task[t].pc = "asmwait" /\ task'[t].pc = "idle"
  /\ last'.exit \in {"zero", "nonzero", "signal"}

\* C20: the success field of an assemble() result is true iff the assembler
\* exited with code 0, whatever standard error holds and whatever diagnostics
\* were parsed from it.
C20_SuccessIsExitCodeZero ==
  [][\A t \in Tasks : AssemblerCloses(t) =>
       /\ last'.result.known
       /\ last'.result.success <=> (last'.exit = "zero")]_vars

C20_Witness ==
  /\ last.op = "assemble" /\ last.exit = "zero"
  /\ last.result.known /\ last.result.success
  /\ \E i \in 1..Len(last.result.errors) : last.result.errors[i].severity = "error"

\* ---- a failed spawn of the assembler
\* the assembler of call t emits 'error' in this step
AssemblerSpawnFails(t) ==
  /\ task[t].pc = "asmwait" /\ task'[t].pc = "idle"
  /\ last'.exit = "spawnError"

\* C21: when the assembler cannot be spawned, assemble() resolves with
\* success = false, no output files and exactly one diagnostic of severity
\* error on line 1 of the requested source file; the command ends there
\* without stopping or starting an emulator.
C21_SpawnFailureIsOneDiagnostic ==
  [][\A t \in Tasks : AssemblerSpawnFails(t) =>
       /\ last'.res = "resolved" /\ last'.op = task[t].op
       /\ last'.result.known /\ ~last'.result.success
       /\ last'.result.outputFiles = {}
       /\ Len(last'.result.errors) = 1
       /\ last'.result.errors[1].file = SourceFile
       /\ last'.result.errors[1].line = 1
       /\ last'.result.errors[1].severity = "error"
       /\ task'[t] = NoTask /\ last'.how = "none" /\ ~last'.bp
       /\ currentInstance' = currentInstance /\ child' = child]_vars

C21_Witness ==
  /\ last.op = "run" /\ last.exit = "spawnError" /\ last.why = "asmFailed"
  /\ Len(last.result.errors) = 1
  /\ currentInstance # NoPid /\ child[1].st = "running" /\ child[1].sent = "none"

\* ---- diagnostics from standard error
\* the lines of the parsed text that match a pattern
MatchingLines ==
  {i \in 1..Len(call.stderr) : call.stderr[i].kind \in {"structured", "simple"}}

\* message t is the text m without the blanks at its ends
IsTrimmed(m, t) ==
  /\ t = <<>> \/ (t[1] # Blank /\ t[Len(t)] # Blank)
  /\ \E a \in 0..Len(m) :
       /\ a + Len(t) <= Len(m)
       /\ \A i \in 1..Len(m) :
            IF i > a /\ i <= a + Len(t) THEN m[i] = t[i - a] ELSE m[i] = Blank

\* C22: parsing standard error yields one diagnostic per line that matches a
\* pattern and none for the other lines, in line order: a structured line
\* gives its file name, its line number and its trimmed message; a line that
\* matches only the looser pattern gives the requested source file, its line
\* number and its trimmed message.  The line of the example scenario alone
\* yields exactly {demo.a80, 7, error, Undefined symbol 'foo'}.
C22_OneDiagnosticPerMatchingLine ==
  call.op = "parseZmacErrors" =>
    /\ Len(call.errors) = Cardinality(MatchingLines)
    /\ \A i \in MatchingLines :
         LET l == call.stderr[i]
             e == call.errors[Cardinality({j \in MatchingLines : j <= i})]
         IN /\ e.file = IF l.kind = "structured" THEN l.file ELSE call.sourceFile
            /\ e.line = l.line
            /\ IsTrimmed(l.message, e.message)
    /\ call.stderr = <<ExampleLine>> =>
         call.errors = <<[file |-> "demo.a80", line |-> 7, severity |-> "error",
                          message |-> <<"Undefined", " ", "symbol", " ", "'foo'">>]>>

C22_Witness ==
  /\ call.op = "parseZmacErrors"
  /\ Len(call.stderr) = 3 /\ Len(call.errors) = 2
  /\ call.stderr[1].kind = "structured" /\ call.stderr[2].kind = "other"
  /\ call.stderr[3].kind = "simple"
  /\ call.errors[1].file = "demo.a80" /\ call.errors[2].file = call.sourceFile

\* ---- the diagnostics collection
\* assemble() of call t resolves in this step
AssemblerResolves(t) == AssemblerCloses(t) \/ AssemblerSpawnFails(t)

\* C23: whenever an invocation of the assembler ends, the diagnostics
\* collection becomes, for every file, the diagnostics of that invocation for
\* the file, in order, with line max(0, line - 1), and nothing else; no other
\* step changes the collection.  So the collection always holds exactly the
\* diagnostics of the most recent invocation.
C23_DiagnosticsAreLatestInvocation ==
  [][/\ \A t \in Tasks : AssemblerResolves(t) =>
          \A f \in Files :
            LET errors == last'.result.errors
                ofFile == {i \in 1..Len(errors) : errors[i].file = f}
            IN /\ Len(diagnostics'[f]) = Cardinality(ofFile)
               /\ \A i \in ofFile :
                    LET d == diagnostics'[f][Cardinality({j \in ofFile : j <= i})]
                    IN /\ d.line = IF errors[i].line >= 1 THEN errors[i].line - 1 ELSE 0
                       /\ d.message = errors[i].message
                       /\ d.severity = errors[i].severity
     /\ (\A t \in Tasks : ~AssemblerResolves(t)) => diagnostics' = diagnostics]_vars

\* an invocation with one diagnostic, for the source file, has ended: the
\* collection holds it and nothing for the include file
C23_Witness ==
  /\ last.op = "assemble" /\ last.exit = "nonzero"
  /\ Len(last.result.errors) = 1 /\ last.result.errors[1].file = SourceFile
  /\ diagnostics[IncludeFile] = <<>> /\ Len(diagnostics[SourceFile]) = 1

\* ---- precedence of the configuration sources
\* the project file was read
ProjectRead == call.project.exists /\ call.project.parses

\* the value of a setting, or the built-in default when it is unset or empty
SettingOrDefault(setting, default) ==
  IF setting \in {Undefined, ""} THEN default ELSE setting

\* C24: for each of output directory, emulator arguments and target model, a
\* value present in the project file is the value getConfiguration returns,
\* whatever the editor setting is; a field absent from the project file takes
\* the editor setting, and the built-in default when that is unset too.
C24_ProjectOverridesGlobal ==
  call.op = "getConfiguration" =>
    /\ call.config.outputDir =
         IF ProjectRead /\ call.project.outputDir # Undefined
         THEN call.project.outputDir
         ELSE SettingOrDefault(call.settings.defaultOutputDir, DefaultConfig.outputDir)
    /\ call.config.emulatorArgs =
         IF ProjectRead /\ IsString(call.project.emulatorArgs)
         THEN call.project.emulatorArgs
         ELSE IF IsString(call.settings.emulatorArgs) THEN call.settings.emulatorArgs
         ELSE DefaultConfig.emulatorArgs
    /\ call.config.target =
         IF ProjectRead /\ call.project.target # Undefined
         THEN call.project.target
         ELSE SettingOrDefault(call.settings.defaultTarget, DefaultConfig.target)

\* ---- status
\* status() runs in this step and its report differs from the last settlement
StatusReports == last' # last /\ last'.op = "status"

\* C25: status() reports the recorded instance (none, or the instance whose
\* pid and start time it prints as Running) and changes nothing: the recorded
\* instance, the children and the signals sent to them, the calls in flight
\* with their stop timers, and the pending 'error' events stay as they were.
C25_StatusIsReadOnly ==
  [][StatusReports =>
       /\ last'.res = "resolved" /\ last'.inst = currentInstance
       /\ currentInstance' = currentInstance
       /\ child' = child
       /\ task' = task
       /\ lateErr' = lateErr]_vars

\* status reported a running instance while a stop of it waits on its timer
C25_Witness ==
  /\ last.op = "status" /\ last.inst # NoPid /\ last.inst = currentInstance
  /\ child[last.inst].st = "running" /\ child[last.inst].sent = GracefulSignal
  /\ \E t \in Tasks : task[t].pc = "stopping" /\ task[t].timer /\ task[t].wait = last.inst

\* ---- addresses as text
\* C26: every address x in 0 .. 0xFFFF, written as upper-case hexadecimal
\* without padding (the value of a '-b' flag) and parsed back as hexadecimal,
\* is x again.
C26_HexRoundTrip ==
  bpm.op = "parse" =>
    /\ bpm.args[1] = <<"-b">>
    /\ bpm.address = bpm.infos[1].address

\* 0xAF is written as the two digits AF and read back as 175
C26_Witness ==
  /\ bpm.op = "parse" /\ bpm.infos[1].address = 175
  /\ bpm.args = <<<<"-b">>, <<"A", "F">>>>
  /\ bpm.address = 175

\* ---- tolerant parsing of the symbol file
\* the lines of the parsed symbol text that match a layout with a symbol
RecognizedLines ==
  {i \in 1..Len(bpm.bds.lines) :
     \/ bpm.bds.lines[i].kind \in {"label", "simple", "complex", "marker"}
     \/ bpm.bds.lines[i].kind = "source" /\ bpm.bds.lines[i].label # ""}

\* C27: parsing a symbol file always returns a list: the empty list for a
\* missing, unreadable or empty file, and otherwise one symbol for each line
\* of a recognized layout, in order, determined by that line and its position
\* alone; a line of no recognized layout yields nothing and changes none of
\* the symbols of the other lines.
C27_ParsingIsTolerant ==
  bpm.op = "parseBdsFile" =>
    IF ~bpm.bds.exists \/ ~bpm.bds.readable \/ bpm.bds.lines = <<>>
    THEN bpm.infos = <<>>
    ELSE /\ Len(bpm.infos) = Cardinality(RecognizedLines)
         /\ \A i \in RecognizedLines :
              LET l == bpm.bds.lines[i]
                  s == bpm.infos[Cardinality({j \in RecognizedLines : j <= i})]
              IN /\ s.address = ParseInt16(l.hex)
                 /\ s.label = IF l.kind = "marker" THEN "e" ELSE l.label
                 /\ s.line = IF l.kind = "complex" THEN l.line ELSE i

\* an unrecognized line between two symbol lines: both symbols are returned
C27_Witness ==
  /\ bpm.op = "parseBdsFile" /\ Len(bpm.bds.lines) = 3
  /\ bpm.bds.lines[1].kind = "label" /\ bpm.bds.lines[2].kind = "other"
  /\ bpm.bds.lines[3].kind = "complex"
  /\ Len(bpm.infos) = 2 /\ bpm.infos[1].line = 1 /\ bpm.infos[2].line = 7

\* ---- exit events of children that are not recorded
\* the 'exit' event of child c is emitted in this step
ExitEmitted(c) == child[c].st = "dead" /\ child'[c].st = "exited"

\* C28: the exit event of a child that is not the recorded instance leaves
\* the recorded instance as it is.
C28_ForeignExitKeepsInstance ==
  [][\A c \in Pids : (ExitEmitted(c) /\ currentInstance # c) =>
       currentInstance' = currentInstance]_vars

\* ---- untracked children
\* a start() is in progress
StartInProgress == \E t \in Tasks : InFlight(t) /\ task[t].op = "start"

\* C29: whenever no instance is recorded and no start() is in progress, no
\* child that the supervisor spawned is alive.
C29_NoOrphanedChild ==
  (currentInstance = NoPid /\ ~StartInProgress) => AliveSet = {}

\* ---- the order of the resolved breakpoints
\* C30: the resolver returns the resolvable source breakpoints in the order
\* in which the host lists them, cut to the first 4: its k-th entry is the
\* k-th resolvable source breakpoint, with that breakpoint's line and address;
\* breakpoints that are not source breakpoints or have no address take no
\* place among the 4.
C30_ResolvedInHostOrder ==
  bpm.op = "getBreakpoints" =>
    /\ Len(bpm.infos) <= BreakpointLimit
    /\ Len(bpm.infos) <= Cardinality(Resolvable)
    /\ \A i \in Resolvable :
         LET k == Cardinality({j \in Resolvable : j <= i})
         IN k <= BreakpointLimit =>
              /\ k <= Len(bpm.infos)
              /\ bpm.infos[k].line = bpm.breakpoints[i].line
              /\ bpm.infos[k].address =
                   FindAddressForSourceLine(bpm.folder, bpm.listing, bpm.source,
                                            bpm.breakpoints[i].line, ParseBdsFile(bpm.bds))

\* a breakpoint without an address and one of another kind come first, and
\* three that resolve on different lines follow: all three are returned, in
\* their order
C30_Witness ==
  /\ bpm.op = "getBreakpoints" /\ Len(bpm.breakpoints) = 5
  /\ bpm.breakpoints[1].isSource /\ 1 \notin Resolvable
  /\ ~bpm.breakpoints[2].isSource
  /\ Resolvable = {3, 4, 5}
  /\ Len(bpm.infos) = 3
  /\ bpm.infos[1].line = 2 /\ bpm.infos[2].line = 1 /\ bpm.infos[3].line = 2
  /\ bpm.infos[1].address # bpm.infos[2].address
====
